---- MODULE Spec2Model ----
(***************************************************************************)
(* The conflict-aware write pipeline of roas-restql (lib/middlewares.js).  *)
(*                                                                         *)
(* One resource model is modelled: attributes id, email, name, deletedAt;  *)
(* primary key id (auto-increment), a non-unique index on name, a unique   *)
(* index "email_unique" on email.  name and deletedAt have declared        *)
(* defaults.  The model is paranoid or not (fixed at start-up).            *)
(*                                                                         *)
(* A request is a process that runs the middleware chain of one route.     *)
(* Requests interleave only at store round trips: every action below is    *)
(* one store round trip together with the synchronous code that follows it *)
(* up to the next await.                                                   *)
(*                                                                         *)
(* Spec serves one request at a time, SpecConc has two requests in flight  *)
(* on one identity, SpecUpdate calls _update on its own (the routes reach  *)
(* it only through the conflict path of _create), and SpecHelpers calls    *)
(* the index and violation helpers on their own, over several models.      *)
(* SpecCalls calls _findExistingRows and isDeleted on their own, SpecQuery *)
(* the query generators of the plural association routes, and SpecAssoc    *)
(* serves the GET, PUT and DELETE routes of a belongsTo association one    *)
(* request at a time (the reads that open a route are one step there).     *)
(***************************************************************************)
EXTENDS Integers, Sequences, FiniteSets, TLC

VARIABLES paranoid, rows, nextId, req, nreq, prev, call, owner

vars == <<paranoid, rows, nextId, req, nreq, prev, call, owner>>

(***************************************************************************)
(* Bounds                                                                  *)
(***************************************************************************)
MaxBatch == 2      \* longest request array
MaxReqs  == 2      \* requests served in one behaviour
MaxIter  == 4      \* cap of the bulkCreate retry counter

Procs     == {1, 2}
Emails    == {"a", "b"}
Names     == {"x", "y"}

(***************************************************************************)
(* Model descriptor                                                        *)
(***************************************************************************)
DeletedAtCol     == "deletedAt"
DefaultDeletedAt == "d0"         \* attributes.deletedAt.defaultValue
DeletedMark      == "t1"         \* a timestamp written by destroy
DefaultName      == "n0"         \* attributes.name.defaultValue
Null             == "null"

Attributes == {"id", "email", "name", "deletedAt"}

\* attributes[key].defaultValue !== undefined
HasDefault(key) == key \in {"name", "deletedAt"}

DefaultValue(key) == IF key = "name" THEN DefaultName ELSE DefaultDeletedAt

\* _getIndexes(model): the primary key first (if the model has one), then
\* options.indexes with the unique flag they declare, then
\* options.uniqueKeys, each unique
_getIndexesOf(model) ==
  (IF Len(model.primaryKeys) > 0
     THEN <<[name |-> "PRIMARY", unique |-> TRUE, fields |-> model.primaryKeys]>>
     ELSE << >>)
  \o [i \in DOMAIN model.indexes |->
        [name |-> model.indexes[i].name, unique |-> model.indexes[i].unique,
         fields |-> model.indexes[i].fields]]
  \o [i \in DOMAIN model.uniqueKeys |->
        [name |-> model.uniqueKeys[i].name, unique |-> TRUE,
         fields |-> model.uniqueKeys[i].fields]]

\* _getUniqueIndexes(model)
_getUniqueIndexesOf(model) == SelectSeq(_getIndexesOf(model), LAMBDA index : index.unique)

\* the model that the routes serve: primary key id, a non-unique index on
\* name, a unique index on email, no uniqueKeys
User ==
  [primaryKeys |-> <<"id">>,
   indexes     |-> << [name |-> "name_idx",     unique |-> FALSE, fields |-> <<"name">>],
                      [name |-> "email_unique", unique |-> TRUE,  fields |-> <<"email">>] >>,
   uniqueKeys  |-> << >>]

_getIndexes == _getIndexesOf(User)

_getUniqueIndexes == _getUniqueIndexesOf(User)

Range(s) == {s[i] : i \in DOMAIN s}

\* _getInstanceValidIndexes: the indexes all of whose fields are present
_getInstanceValidIndexes(indexes, data) ==
  SelectSeq(indexes, LAMBDA index : \A f \in Range(index.fields) : f \in DOMAIN data)

\* a variant that takes the last valid index
_getInstanceValidIndexFieldsLast(indexes, data) ==
  LET validIndexes == _getInstanceValidIndexes(indexes, data)
  IN  IF Len(validIndexes) = 0 THEN {}
      ELSE {[f \in Range(validIndexes[Len(validIndexes)].fields) |-> data[f]]}

\* _getInstanceValidIndexFields: the sub-record of the first valid index;
\* the result is a set holding that sub-record, or {} for undefined
_getInstanceValidIndexFields(indexes, data) ==
  LET validIndexes == _getInstanceValidIndexes(indexes, data)
  IN  IF Len(validIndexes) = 0 THEN {}
      ELSE {[f \in Range(validIndexes[1].fields) |-> data[f]]}

(***************************************************************************)
(* Soft-delete reconciler                                                  *)
(***************************************************************************)
\* a variant that takes every row for live
isDeletedNever(row) == FALSE

\* isDeleted(model, row); row is a set holding the row, or {} for null
isDeleted(row) ==
  IF ~paranoid THEN FALSE
  ELSE IF row = {} THEN TRUE
  ELSE \E r \in row : r[DeletedAtCol] # DefaultDeletedAt

\* setDefaultDeletedValue on one record
StampRecord(rec) ==
  [f \in (DOMAIN rec) \cup {DeletedAtCol} |->
      IF f = DeletedAtCol THEN DefaultDeletedAt ELSE rec[f]]

\* setDefaultDeletedValue(model, data) on an array of records
setDefaultDeletedValue(data) ==
  IF ~paranoid THEN data
  ELSE [i \in DOMAIN data |-> StampRecord(data[i])]

(***************************************************************************)
(* The store (Sequelize model backed by a table with the unique indexes)   *)
(***************************************************************************)
\* the default scope of a paranoid model hides soft-deleted rows
Live(r) == ~paranoid \/ r.deletedAt = DefaultDeletedAt

Matches(r, w) == \A f \in DOMAIN w : r[f] = w[f]

MinId(rs) == CHOOSE r \in rs : \A q \in rs : r.id <= q.id

\* rows sorted by ascending id (order: [['id', 'ASC']])
RECURSIVE SortById(_)
SortById(rs) ==
  IF rs = {} THEN << >> ELSE <<MinId(rs)>> \o SortById(rs \ {MinId(rs)})

\* model.find({ where, paranoid }): the row as a one-element set, or {}
StoreFind(rs, w, inclDeleted) ==
  LET hit == {r \in rs : Matches(r, w) /\ (inclDeleted \/ Live(r))}
  IN  IF hit = {} THEN {} ELSE {MinId(hit)}

\* model.findAll({ where: { $or }, order: [['id','ASC']] })
StoreFindAll(rs, or) ==
  SortById({r \in rs : Live(r) /\ \E i \in DOMAIN or : Matches(r, or[i])})

\* the row built from a record: absent attributes take their defaults
BuildRow(rec, id) ==
  [id        |-> id,
   email     |-> IF "email" \in DOMAIN rec THEN rec.email ELSE Null,
   name      |-> IF "name" \in DOMAIN rec THEN rec.name ELSE DefaultName,
   deletedAt |-> IF DeletedAtCol \in DOMAIN rec
                   THEN rec[DeletedAtCol] ELSE DefaultDeletedAt]

\* rows that a record would duplicate under the unique index on email
Dups(rs, rec) ==
  IF "email" \in DOMAIN rec /\ rec.email # Null
    THEN {r \in rs : r.email = rec.email} ELSE {}

\* the error.fields of a SequelizeUniqueConstraintError on email_unique
ViolationFields(rec) == [email_unique |-> rec.email]

\* a row updated with the fields a record carries (id is never rewritten)
Overwrite(r, rec) ==
  [f \in DOMAIN r |->
     IF f \in DOMAIN rec /\ f # "id" THEN rec[f] ELSE r[f]]

(***************************************************************************)
(* Conflict translator                                                     *)
(***************************************************************************)
\* the strings without a '-' that values are made of
Tokens == {"a", "b", "x", "y"}

MaxParts == 3

\* Array.prototype.join('-'), the way the store reports the value of a
\* violated index
RECURSIVE Dashed(_)
Dashed(seq) ==
  IF Len(seq) = 1 THEN seq[1] ELSE seq[1] \o "-" \o Dashed(Tail(seq))

TokenSeqs == UNION {[1..n -> Tokens] : n \in 1..MaxParts}

\* String.prototype.split('-'): the tokens a string is made of; a string
\* that is made of no tokens ("null", "n0", ...) holds no '-'
Split(value) ==
  IF \E seq \in TokenSeqs : Dashed(seq) = value
    THEN CHOOSE seq \in TokenSeqs : Dashed(seq) = value
    ELSE <<value>>

\* _getUniqueConstraintErrorFields(model, error): error.fields is keyed by
\* attribute names or by the name of the violated index; the result is a
\* set holding the decoded identity, or {} for undefined
_getUniqueConstraintErrorFieldsOf(model, fields) ==
  IF \A key \in DOMAIN fields : key \in Attributes THEN {fields}
  ELSE LET hit == SelectSeq(_getUniqueIndexesOf(model),
                            LAMBDA index : index.name \in DOMAIN fields
                                           /\ fields[index.name] # "")
       IN  IF Len(hit) = 0 THEN {}
           ELSE LET uniqueIndex == hit[1]
                    value == Split(fields[uniqueIndex.name])
                IN  {[f \in Range(uniqueIndex.fields) |->
                        LET i == CHOOSE k \in DOMAIN uniqueIndex.fields :
                                   uniqueIndex.fields[k] = f
                        IN  IF i <= Len(value) THEN value[i] ELSE "undefined"]}

_getUniqueConstraintErrorFields(fields) == _getUniqueConstraintErrorFieldsOf(User, fields)

\* the for-loop of _handleUniqueConstraintError: every attribute with a
\* declared default is set to that default
ResetDefaults(r) ==
  [key \in DOMAIN r |-> IF HasDefault(key) THEN DefaultValue(key) ELSE r[key]]

\* ctx.throw(message, 409), after the given number of store calls
Conflict409(calls) == [threw |-> TRUE, row |-> {}, fields |-> {}, calls |-> calls]

\* a variant that resolves the conflict whenever the offending row is found
_handleUniqueConstraintErrorLenient(rs, errFields, ignoreDuplicates) ==
  LET fields == _getUniqueConstraintErrorFields(errFields)
      row    == IF fields = {} THEN {}
                ELSE StoreFind(rs, CHOOSE w \in fields : TRUE, TRUE)
  IN  IF fields = {} \/ row = {} THEN Conflict409(1)
      ELSE [threw |-> FALSE, row |-> {ResetDefaults(r) : r \in row},
            fields |-> fields, calls |-> 1]

\* _handleUniqueConstraintError(ctx, model, error, options).  Line 311 is
\* `if (!deletedAtCol || !paranoid) ;` : the if guards an empty statement,
\* so the ctx.throw of line 312 runs on every call.
_handleUniqueConstraintError(rs, errFields, ignoreDuplicates) ==
  LET fields == _getUniqueConstraintErrorFields(errFields)
      row    == IF fields = {} THEN {}
                ELSE StoreFind(rs, CHOOSE w \in fields : TRUE, TRUE)
  IN  IF TRUE THEN Conflict409(0)
      ELSE IF fields = {} \/ row = {} THEN Conflict409(1)
      ELSE IF ~ignoreDuplicates /\ ~isDeleted(row) THEN Conflict409(1)
      ELSE [threw |-> FALSE, row |-> {ResetDefaults(r) : r \in row},
            fields |-> fields, calls |-> 1]

\* a variant that takes no error for a uniqueness violation
IsUniqueConstraintErrorNever(kind) == FALSE

\* a variant that takes every error for a uniqueness violation
IsUniqueConstraintErrorAlways(kind) == TRUE

\* error.name === 'SequelizeUniqueConstraintError'
IsUniqueConstraintError(kind) == kind = "unique"

(***************************************************************************)
(* Requests                                                                *)
(***************************************************************************)
\* input records: the parsed JSON body
Records == UNION {[D -> Emails \cup Names] : D \in SUBSET {"email", "name"}}

InputRecords ==
  {rec \in Records :
     /\ "email" \in DOMAIN rec => rec.email \in Emails
     /\ "name" \in DOMAIN rec => rec.name \in Names}

\* bodies that carry an id of the client's choosing
IdRecords == {[id |-> 1, email |-> e] : e \in Emails}

\* a body that carries a delete marker of the client's choosing
MarkedRecords == {[email |-> "b", deletedAt |-> DeletedMark]}

\* the bodies of the single-record routes
SingleRecords == InputRecords \cup IdRecords \cup MarkedRecords

\* the records that request arrays are made of
BatchRecords ==
  {rec \in InputRecords :
     \/ DOMAIN rec = {"email"} /\ rec.email = "a"
     \/ DOMAIN rec = {"email", "name"} /\ (rec.email = "a" \/ rec.name = "x")
     \/ DOMAIN rec = {"name"} /\ rec.name = "x"}

Batches == UNION {[1..n -> BatchRecords] : n \in 0..MaxBatch}

\* a request array whose record carries an id of the client's choosing
IdBatches == {<<[id |-> 1, email |-> "b"]>>}

Idle ==
  [pc |-> "idle", op |-> "none", body |-> << >>, data |-> << >>,
   where |-> << >>, ign |-> FALSE, created |-> FALSE, res |-> << >>,
   status |-> 0, err |-> "none", handled |-> "none", hrow |-> {}, pre |-> {},
   conflicts |-> << >>, iters |-> 0, writes |-> 0, calls |-> 0, as |-> {}]

\* no helper function is being called on its own
NoCall == [fn |-> "none"]

NoPrev == [op |-> "none", where |-> << >>, created |-> FALSE, status |-> 0, id |-> 0]

\* what is remembered of the request served last: the outcome of an
\* upsert that succeeded, nothing of any other request
Summary(r) ==
  IF r.op = "upsert" /\ r.status \in {200, 201} /\ Len(r.res) = 1
    THEN [op |-> r.op, where |-> r.where, created |-> r.created,
          status |-> r.status, id |-> r.res[1].id]
    ELSE NoPrev

\* a variant that leaves the id in the record
StripIdKeep(rec) == rec

\* if (id) delete data.id
StripId(rec) == [f \in (DOMAIN rec) \ {"id"} |-> rec[f]]

\* the stores a behaviour starts from: empty, or holding the row of an
\* earlier create of { email: "a", name: "x" }, live or (paranoid model)
\* soft-deleted by an earlier destroy
InitRows ==
  {{}} \cup {{[id |-> 1, email |-> "a", name |-> "x", deletedAt |-> d]} :
              d \in {DefaultDeletedAt, DeletedMark}}

Init ==
  /\ paranoid \in BOOLEAN
  /\ rows \in InitRows
  /\ \A r \in rows : paranoid \/ r.deletedAt = DefaultDeletedAt
  /\ nextId = 2
  /\ owner = 0
  /\ req = [p \in Procs |-> Idle]
  /\ nreq = 0
  /\ prev = NoPrev
  /\ call = NoCall

Accept(p) == req[p].pc = "idle" /\ nreq < MaxReqs

Respond(r, status, res) == [r EXCEPT !.pc = "done", !.status = status, !.res = res]

(***************************************************************************)
(* create                                                                  *)
(***************************************************************************)
\* POST with an object body: create middleware up to the await of
\* _create's model.create
StartCreate(p, body, ignoreDuplicates) ==
  /\ Accept(p)
  /\ req' = [req EXCEPT ![p] =
       [Idle EXCEPT !.pc = "create", !.op = "create", !.body = <<body>>,
                    !.ign = ignoreDuplicates,
                    !.data = <<StripId(setDefaultDeletedValue(<<body>>)[1])>>]]
  /\ nreq' = nreq + 1
  /\ UNCHANGED <<call, owner, paranoid, rows, nextId, prev>>

\* _.Assign({}, row.dataValues, data)
Assign(r, data) ==
  [f \in (DOMAIN r) \cup (DOMAIN data) |-> IF f \in DOMAIN data THEN data[f] ELSE r[f]]

\* _update(ctx, model, data, { where }) as _create calls it after a resolved
\* conflict: model.update then model.findAll
UpdateAfterConflict(rs, data, fields) ==
  LET w == CHOOSE x \in fields : TRUE
      updated == {IF Matches(r, w) THEN Overwrite(r, StripId(data)) ELSE r : r \in rs}
  IN  [rows |-> updated, res |-> StoreFindAll(updated, <<w>>)]

\* the catch block of _create for an error of the given kind: the request
\* afterwards and the rows afterwards
CreateCatch(r, rs, kind, errFields) ==
  IF ~IsUniqueConstraintError(kind)
    THEN [req |-> Respond(r, 500, << >>), rows |-> rs]
  ELSE LET h == _handleUniqueConstraintError(rs, errFields, r.ign)
       IN  IF h.threw
             THEN [req |-> Respond([r EXCEPT !.handled = "conflict",
                                             !.calls = @ + h.calls], 409, << >>),
                   rows |-> rs]
           ELSE LET row == CHOOSE x \in h.row : TRUE
                    u   == UpdateAfterConflict(rs, Assign(row, r.data[1]), h.fields)
                IN  [req |-> Respond([r EXCEPT !.handled = "resolved", !.hrow = h.row,
                                               !.writes = @ + 1,
                                               !.calls = @ + h.calls + 2],
                                     201, SubSeq(u.res, 1, 1)),
                     rows |-> u.rows]

\* model.create settles; the catch block of _create runs on an error
CreateWrite(p) ==
  /\ req[p].pc = "create"
  /\ \E fail \in BOOLEAN :
       LET data == req[p].data[1]
           dups == Dups(rows, data)
           kind == IF fail THEN "other" ELSE IF dups # {} THEN "unique" ELSE "none"
           r    == [req[p] EXCEPT !.err = kind, !.pre = dups,
                                  !.writes = @ + 1, !.calls = @ + 1]
       IN  IF kind = "none"
             THEN /\ rows' = rows \cup {BuildRow(data, nextId)}
                  /\ nextId' = nextId + 1
                  /\ req' = [req EXCEPT ![p] =
                               Respond(r, 201, <<BuildRow(data, nextId)>>)]
             ELSE LET c == CreateCatch(r, rows, kind, ViolationFields(data))
                  IN  /\ rows' = c.rows
                      /\ req' = [req EXCEPT ![p] = c.req]
                      /\ UNCHANGED nextId
  /\ UNCHANGED <<call, owner, paranoid, nreq, prev>>

(***************************************************************************)
(* upsert                                                                  *)
(***************************************************************************)
\* a variant that refuses a record without identity
UpsertEntryStrict(r, data, where) ==
  IF where # {}
    THEN [r EXCEPT !.pc = "upsert", !.data = <<data>>,
                   !.where = <<CHOOSE w \in where : TRUE>>]
    ELSE Respond(r, 400, << >>)

\* the branch of the upsert middleware (lines 800-818): `if (where)` it
\* calls _upsert, else it sets created = true and calls _create
UpsertEntry(r, data, where) ==
  IF where # {}
    THEN [r EXCEPT !.pc = "upsert", !.data = <<data>>,
                   !.where = <<CHOOSE w \in where : TRUE>>]
    ELSE [r EXCEPT !.pc = "create", !.created = TRUE,
                   !.data = <<StripId(data)>>]

\* PUT with an object body: upsert middleware.  With an identity it enters
\* _upsert up to the await of model.upsert; without one it enters _create.
StartUpsert(p, body) ==
  /\ Accept(p)
  /\ LET data  == setDefaultDeletedValue(<<body>>)[1]
         where == _getInstanceValidIndexFields(_getUniqueIndexes, data)
         r     == [Idle EXCEPT !.op = "upsert", !.body = <<body>>]
     IN  req' = [req EXCEPT ![p] = UpsertEntry(r, data, where)]
  /\ nreq' = nreq + 1
  /\ UNCHANGED <<call, owner, paranoid, rows, nextId, prev>>

\* a row updated with the listed fields of a record
OverwriteFields(r, rec, fields) ==
  [f \in DOMAIN r |->
     IF f \in fields /\ f \in DOMAIN rec THEN rec[f] ELSE r[f]]

\* a variant that never sees a duplicate
UpsertHitNone(rs, data) == {}

\* the stored row that INSERT ... ON DUPLICATE KEY UPDATE takes for the
\* duplicate of a record: the row with the record's primary key, else the
\* row with its email
UpsertHit(rs, data) ==
  LET pk == IF "id" \in DOMAIN data THEN {r \in rs : r.id = data.id} ELSE {}
  IN  IF pk # {} THEN pk ELSE Dups(rs, data)

\* INSERT ... ON DUPLICATE KEY UPDATE of one record, the update writing the
\* listed fields.  Without a duplicate the record is inserted, under its own
\* id if it carries one; with one, that row is updated, which fails when the
\* new values collide with another row.  The result is the rows afterwards,
\* the auto-increment counter afterwards, the `created` flag, and ok = FALSE
\* for a uniqueness violation.
UpsertRow(rs, data, id, fields) ==
  LET hit == UpsertHit(rs, data)
  IN  IF hit = {}
        THEN LET rid == IF "id" \in DOMAIN data THEN data.id ELSE id
             IN  [ok |-> TRUE, rows |-> rs \cup {BuildRow(data, rid)},
                  nextId |-> IF rid >= id THEN rid + 1 ELSE id, created |-> TRUE]
        ELSE LET old   == CHOOSE r \in hit : TRUE
                 new   == OverwriteFields(old, data, fields)
                 clash == {r \in rs \ {old} :
                             r.id = new.id \/ (r.email = new.email /\ new.email # Null)}
             IN  IF clash # {}
                   THEN [ok |-> FALSE, rows |-> rs, nextId |-> id, created |-> FALSE]
                   ELSE [ok |-> TRUE, rows |-> (rs \ {old}) \cup {new},
                         nextId |-> id, created |-> FALSE]

\* model.upsert(data): every field of the record is written on a duplicate
StoreUpsert(rs, data, id) == UpsertRow(rs, data, id, DOMAIN data)

\* a variant that swallows the error and goes on to read the row back
UpsertCatchSwallow(r, kind) ==
  [r EXCEPT !.pc = IF r.op = "bulkUpsert" THEN "bu_find" ELSE "upsert_find"]

\* the catch block of _upsert and of _bulkUpsert: the request afterwards
UpsertCatch(r, kind) ==
  IF ~IsUniqueConstraintError(kind) THEN Respond(r, 500, << >>)
  ELSE Respond(r, 409, << >>)

\* model.upsert settles in _upsert
UpsertNative(p) ==
  /\ req[p].pc = "upsert"
  /\ \E fail \in BOOLEAN :
       LET data == req[p].data[1]
           u    == StoreUpsert(rows, data, nextId)
           kind == IF fail THEN "other" ELSE IF ~u.ok THEN "unique" ELSE "none"
           r    == [req[p] EXCEPT !.err = kind, !.pre = UpsertHit(rows, data),
                                  !.writes = @ + 1, !.calls = @ + 1]
       IN  IF kind # "none"
             THEN /\ req' = [req EXCEPT ![p] = UpsertCatch(r, kind)]
                  /\ UNCHANGED <<rows, nextId>>
             ELSE /\ rows' = u.rows
                  /\ nextId' = u.nextId
                  /\ req' = [req EXCEPT ![p] =
                               [r EXCEPT !.pc = "upsert_find", !.created = u.created]]
  /\ UNCHANGED <<call, owner, paranoid, nreq, prev>>

\* a variant that answers 201 whatever `created` is
UpsertStatusAlwaysCreated(r) == 201

\* the status the route answers with once _upsert returned
UpsertStatus(r) ==
  IF r.op = "findOrUpsert" THEN 201 ELSE IF r.created THEN 201 ELSE 200

\* a variant that issues the upsert again when the fetched row is deleted
AfterFetchReissue(r, found) ==
  IF isDeleted(found) THEN [r EXCEPT !.pc = "upsert"]
  ELSE Respond(r, UpsertStatus(r), SortById(found))

\* the end of _upsert with the fetched row: `if (isDeleted(model, data))
\* await data.restore()`; restore on a null row is a TypeError
AfterFetch(r, found) ==
  IF isDeleted(found)
    THEN IF found = {} THEN Respond(r, 500, << >>)
         ELSE [r EXCEPT !.pc = "upsert_restore", !.res = SortById(found)]
    ELSE Respond(r, UpsertStatus(r), SortById(found))

\* model.find({ where }) settles
UpsertFind(p) ==
  /\ req[p].pc = "upsert_find"
  /\ LET found == StoreFind(rows, req[p].where[1], FALSE)
         r     == [req[p] EXCEPT !.calls = @ + 1]
     IN  req' = [req EXCEPT ![p] =
           IF found = {} THEN [r EXCEPT !.pc = "upsert_find2"]
           ELSE AfterFetch(r, found)]
  /\ UNCHANGED <<call, owner, paranoid, rows, nextId, nreq, prev>>

\* model.find({ where, paranoid: false }) settles
UpsertFind2(p) ==
  /\ req[p].pc = "upsert_find2"
  /\ LET found == StoreFind(rows, req[p].where[1], TRUE)
     IN  req' = [req EXCEPT ![p] = AfterFetch([req[p] EXCEPT !.calls = @ + 1], found)]
  /\ UNCHANGED <<call, owner, paranoid, rows, nextId, nreq, prev>>

\* data.restore() settles: the row's deletedAt is set back to its default,
\* in the store and on the instance that is returned
UpsertRestore(p) ==
  /\ req[p].pc = "upsert_restore"
  /\ LET id == req[p].res[1].id
         r  == [req[p] EXCEPT !.writes = @ + 1, !.calls = @ + 1]
     IN  /\ rows' = {IF x.id = id THEN [x EXCEPT !.deletedAt = DefaultDeletedAt]
                     ELSE x : x \in rows}
         /\ req' = [req EXCEPT ![p] =
              Respond(r, UpsertStatus(r),
                      <<[r.res[1] EXCEPT !.deletedAt = DefaultDeletedAt]>>)]
  /\ UNCHANGED <<call, owner, paranoid, nextId, nreq, prev>>

(***************************************************************************)
(* findOrUpsert                                                            *)
(***************************************************************************)
\* findOrUpsert middleware up to the await of _findExistingRows' findAll;
\* the body carries an identity
StartFindOrUpsert(p, body) ==
  /\ Accept(p)
  /\ _getInstanceValidIndexFields(_getUniqueIndexes, body) # {}
  /\ req' = [req EXCEPT ![p] =
       [Idle EXCEPT !.pc = "find_existing", !.op = "findOrUpsert",
                    !.body = <<body>>, !.data = <<body>>,
                    !.where = <<CHOOSE w \in
                       _getInstanceValidIndexFields(_getUniqueIndexes, body) : TRUE>>]]
  /\ nreq' = nreq + 1
  /\ UNCHANGED <<call, owner, paranoid, rows, nextId, prev>>

\* _findExistingRows settles for a one-record array; with no existing row
\* the middleware enters _upsert up to the await of model.upsert
FindExisting(p) ==
  /\ req[p].pc = "find_existing"
  /\ LET found == StoreFindAll(rows, req[p].where)
         r     == [req[p] EXCEPT !.calls = @ + 1]
     IN  req' = [req EXCEPT ![p] =
           IF Len(found) = 1 THEN Respond(r, 200, found)
           ELSE [r EXCEPT !.pc = "upsert"]]
  /\ UNCHANGED <<call, owner, paranoid, rows, nextId, nreq, prev>>

(***************************************************************************)
(* bulkCreate                                                              *)
(***************************************************************************)
\* the identity of every record of a batch ($or); a record without one
\* contributes nothing
Identities(data) ==
  LET ids == [i \in DOMAIN data |->
                _getInstanceValidIndexFields(_getUniqueIndexes, data[i])]
  IN  [i \in DOMAIN data |-> IF ids[i] = {} THEN << >> ELSE CHOOSE w \in ids[i] : TRUE]

AllHaveIdentity(data) ==
  \A i \in DOMAIN data :
    _getInstanceValidIndexFields(_getUniqueIndexes, data[i]) # {}

\* POST with an array body: bulkCreate middleware and _bulkCreate up to the
\* await of the first model.bulkCreate.  For a record without identity line
\* 392 calls this.throw, and `this` is undefined in the middleware (strict
\* mode, called as fn(ctx, next)): a TypeError, answered with 500.
StartBulkCreate(p, body) ==
  /\ Accept(p)
  /\ Len(body) > 0
  /\ LET data == setDefaultDeletedValue(body)
         r    == [Idle EXCEPT !.op = "bulkCreate", !.body = body, !.data = data]
     IN  req' = [req EXCEPT ![p] =
           IF ~AllHaveIdentity(data) THEN Respond(r, 500, << >>)
           ELSE [r EXCEPT !.pc = "bc_insert", !.where = Identities(data)]]
  /\ nreq' = nreq + 1
  /\ UNCHANGED <<call, owner, paranoid, rows, nextId, prev>>

\* model.bulkCreate(data): one multi-row INSERT; it inserts every record or,
\* when a record duplicates a stored row or an earlier record, none
RECURSIVE BulkInsert(_, _, _, _)
BulkInsert(rs, data, i, id) ==
  IF i > Len(data) THEN [ok |-> TRUE, rows |-> rs, nextId |-> id, rec |-> << >>]
  ELSE IF Dups(rs, data[i]) # {}
    THEN [ok |-> FALSE, rows |-> rs, nextId |-> id, rec |-> <<data[i]>>]
  ELSE BulkInsert(rs \cup {BuildRow(data[i], id)}, data, i + 1, id + 1)

\* data.findIndex(row => Object.keys(fields).every(key => fields[key] == row[key]));
\* 0 stands for -1
FindIndex(data, fields) ==
  LET hit == {i \in DOMAIN data :
                \A key \in DOMAIN fields :
                  key \in DOMAIN data[i] /\ data[i][key] = fields[key]}
  IN  IF hit = {} THEN 0 ELSE CHOOSE i \in hit : \A k \in hit : i <= k

\* data.splice(index, 1)
Splice(data, index) ==
  [i \in 1..(Len(data) - 1) |-> IF i < index THEN data[i] ELSE data[i + 1]]

\* a variant that swallows the error and retries the same batch
BulkCreateCatchRetry(r, rs, kind, errFields) == [r EXCEPT !.iters = @ + 1]

\* the catch block of the retry loop of _bulkCreate (lines 405-429): the
\* request afterwards
BulkCreateCatch(r, rs, kind, errFields) ==
  IF ~IsUniqueConstraintError(kind) THEN Respond(r, 500, << >>)
  ELSE LET h  == _handleUniqueConstraintError(rs, errFields, FALSE)
           r1 == [r EXCEPT !.iters = @ + 1, !.calls = @ + h.calls, !.hrow = h.row]
       IN  IF h.threw THEN Respond([r1 EXCEPT !.handled = "conflict"], 409, << >>)
           ELSE LET fields == CHOOSE w \in h.fields : TRUE
                    row    == CHOOSE x \in h.row : TRUE
                    index  == FindIndex(r.data, fields)
                IN  IF index # 0
                      THEN [r1 EXCEPT !.handled = "resolved",
                                      !.conflicts = Append(@, Assign(row, r.data[index])),
                                      !.data = Splice(@, index)]
                      ELSE Respond([r1 EXCEPT !.handled = "resolved"], 500, << >>)

\* model.bulkCreate(data, options) settles in the retry loop
BcInsert(p) ==
  /\ req[p].pc = "bc_insert"
  /\ req[p].iters < MaxIter
  /\ \E fail \in BOOLEAN :
       LET b    == BulkInsert(rows, req[p].data, 1, nextId)
           kind == IF fail THEN "other" ELSE IF ~b.ok THEN "unique" ELSE "none"
           r    == [req[p] EXCEPT !.err = kind, !.writes = @ + 1, !.calls = @ + 1,
                                  !.pre = IF b.ok THEN {} ELSE Dups(rows, b.rec[1])]
       IN  IF kind = "none"
             THEN /\ rows' = b.rows
                  /\ nextId' = b.nextId
                  /\ req' = [req EXCEPT ![p] = [r EXCEPT !.pc = "bc_find"]]
             ELSE /\ req' = [req EXCEPT ![p] =
                       BulkCreateCatch(r, rows, kind,
                         IF b.ok THEN << >> ELSE ViolationFields(b.rec[1]))]
                  /\ UNCHANGED <<rows, nextId>>
  /\ UNCHANGED <<call, owner, paranoid, nreq, prev>>

\* model.bulkCreate(rows, { updateOnDuplicate: all attributes }) of the
\* queued conflict rows: each overwrites the stored row it carries the id of
RECURSIVE FlushConflicts(_, _)
FlushConflicts(rs, conflicts) ==
  IF conflicts = << >> THEN rs
  ELSE FlushConflicts(
         {IF r.id = Head(conflicts).id THEN Overwrite(r, Head(conflicts)) ELSE r : r \in rs},
         Tail(conflicts))

\* after the clean insert: the conflict rows, if any, are written, then
\* model.findAll({ where: { $or }, order: id ASC }) settles.  The conflicts
\* list is empty on every run of the code (see _handleUniqueConstraintError).
BcFindAll(p) ==
  /\ req[p].pc = "bc_find"
  /\ LET flushed == FlushConflicts(rows, req[p].conflicts)
         r == [req[p] EXCEPT !.calls = @ + 1,
                 !.writes = IF req[p].conflicts = << >> THEN @ ELSE @ + 1]
     IN  /\ rows' = flushed
         /\ req' = [req EXCEPT ![p] =
                      Respond(r, 201, StoreFindAll(flushed, r.where))]
  /\ UNCHANGED <<call, owner, paranoid, nextId, nreq, prev>>

(***************************************************************************)
(* bulkUpsert                                                              *)
(***************************************************************************)
\* a variant that compares every row with itself
SameAttributesSelf(data) == \A i \in DOMAIN data : DOMAIN data[i] = DOMAIN data[i]

\* JSON.stringify(Object.keys(row).sort()) is the same for every row
SameAttributes(data) == \A i \in DOMAIN data : DOMAIN data[i] = DOMAIN data[1]

\* PUT with an array body: bulkUpsert middleware and _bulkUpsert up to the
\* await of model.bulkCreate
StartBulkUpsert(p, body) ==
  /\ Accept(p)
  /\ LET data == setDefaultDeletedValue(body)
         r    == [Idle EXCEPT !.op = "bulkUpsert", !.body = body, !.data = data]
     IN  req' = [req EXCEPT ![p] =
           IF Len(data) = 0 THEN Respond(r, 200, << >>)
           ELSE IF ~SameAttributes(data) THEN Respond(r, 400, << >>)
           ELSE IF ~AllHaveIdentity(data) THEN Respond(r, 400, << >>)
           ELSE [r EXCEPT !.pc = "bu_write", !.where = Identities(data)]]
  /\ nreq' = nreq + 1
  /\ UNCHANGED <<call, owner, paranoid, rows, nextId, prev>>

\* model.bulkCreate(data, { updateOnDuplicate }): one multi-row
\* INSERT ... ON DUPLICATE KEY UPDATE, record by record; the update writes
\* the fields of the first record other than id (lines 179-180)
RECURSIVE BulkUpsertRows(_, _, _, _)
BulkUpsertRows(rs, data, i, id) ==
  IF i > Len(data) THEN [ok |-> TRUE, rows |-> rs, nextId |-> id]
  ELSE LET u == UpsertRow(rs, data[i], id, (DOMAIN data[1]) \ {"id"})
       IN  IF ~u.ok THEN [ok |-> FALSE, rows |-> rs, nextId |-> id]
           ELSE BulkUpsertRows(u.rows, data, i + 1, u.nextId)

\* model.bulkCreate settles in _bulkUpsert
BuWrite(p) ==
  /\ req[p].pc = "bu_write"
  /\ \E fail \in BOOLEAN :
       LET u    == BulkUpsertRows(rows, req[p].data, 1, nextId)
           kind == IF fail THEN "other" ELSE IF ~u.ok THEN "unique" ELSE "none"
           r    == [req[p] EXCEPT !.err = kind, !.writes = @ + 1, !.calls = @ + 1]
       IN  IF kind # "none"
             THEN /\ req' = [req EXCEPT ![p] = UpsertCatch(r, kind)]
                  /\ UNCHANGED <<rows, nextId>>
             ELSE /\ rows' = u.rows
                  /\ nextId' = u.nextId
                  /\ req' = [req EXCEPT ![p] = [r EXCEPT !.pc = "bu_find"]]
  /\ UNCHANGED <<call, owner, paranoid, nreq, prev>>

\* model.findAll({ where: { $or }, order: id ASC }) settles in _bulkUpsert
BuFindAll(p) ==
  /\ req[p].pc = "bu_find"
  /\ req' = [req EXCEPT ![p] =
       Respond([req[p] EXCEPT !.calls = @ + 1], 200, StoreFindAll(rows, req[p].where))]
  /\ UNCHANGED <<call, owner, paranoid, rows, nextId, nreq, prev>>

(***************************************************************************)
(* destroy                                                                 *)
(***************************************************************************)
\* DELETE with where = { email }: model.destroy({ where }); a paranoid model
\* marks the matching live rows, any other model removes them
Destroy(p, e) ==
  /\ Accept(p)
  /\ rows' = IF paranoid
               THEN {IF r.email = e /\ Live(r)
                       THEN [r EXCEPT !.deletedAt = DeletedMark] ELSE r : r \in rows}
               ELSE {r \in rows : r.email # e}
  /\ nreq' = nreq + 1
  /\ prev' = NoPrev
  /\ UNCHANGED <<call, owner, paranoid, nextId, req>>

\* the response is sent and the request's state is dropped
Finish(p) ==
  /\ req[p].pc = "done"
  /\ prev' = Summary(req[p])
  /\ req' = [req EXCEPT ![p] = Idle]
  /\ UNCHANGED <<call, owner, paranoid, rows, nextId, nreq>>

Next ==
  \/ \E body \in SingleRecords, ign \in BOOLEAN : StartCreate(1, body, ign)
  \/ CreateWrite(1)
  \/ \E body \in SingleRecords : StartUpsert(1, body)
  \/ UpsertNative(1)
  \/ UpsertFind(1)
  \/ UpsertFind2(1)
  \/ UpsertRestore(1)
  \/ \E body \in InputRecords \cup MarkedRecords : StartFindOrUpsert(1, body)
  \/ FindExisting(1)
  \/ \E body \in Batches : StartBulkCreate(1, body)
  \/ BcInsert(1)
  \/ BcFindAll(1)
  \/ \E body \in Batches \cup IdBatches : StartBulkUpsert(1, body)
  \/ BuWrite(1)
  \/ BuFindAll(1)
  \/ \E e \in Emails : Destroy(1, e)
  \/ Finish(1)

Spec == Init /\ [][Next]_vars

\* Two requests in flight on one identity, after one request was served
ConcRecords == {rec \in InputRecords : "email" \in DOMAIN rec /\ rec.email = "a"}

NextConc ==
  \E p \in Procs :
    \/ \E body \in ConcRecords, ign \in BOOLEAN : StartCreate(p, body, ign)
    \/ CreateWrite(p)
    \/ \E body \in ConcRecords : StartUpsert(p, body)
    \/ UpsertNative(p)
    \/ UpsertFind(p)
    \/ UpsertFind2(p)
    \/ UpsertRestore(p)
    \/ \E body \in ConcRecords : StartFindOrUpsert(p, body)
    \/ FindExisting(p)
    \/ Destroy(p, "a")
    \/ Finish(p)

SpecConc == Init /\ [][NextConc]_vars

(***************************************************************************)
(* _update called on its own                                               *)
(***************************************************************************)
\* model.update(data, { where }): the live rows that match are overwritten;
\* ok = FALSE for a uniqueness violation, which leaves the rows as they were
StoreUpdate(rs, data, w) ==
  LET hit == {r \in rs : Matches(r, w) /\ Live(r)}
      new == {IF r \in hit THEN Overwrite(r, data) ELSE r : r \in rs}
      ok  == \A x, y \in new :
               (x.id # y.id /\ x.email # Null) => x.email # y.email
  IN  [ok |-> ok \/ hit = {}, rows |-> IF ok THEN new ELSE rs]

\* the scopes _update is called with
UpdateScopes == {[email |-> e] : e \in Emails}

\* _update(ctx, model, data, { where }) up to the await of model.update
StartUpdate(p, data, where) ==
  /\ Accept(p)
  /\ req' = [req EXCEPT ![p] =
       [Idle EXCEPT !.pc = "update", !.op = "update", !.body = <<data>>,
                    !.data = <<StripId(data)>>, !.where = <<where>>]]
  /\ nreq' = nreq + 1
  /\ UNCHANGED <<call, owner, paranoid, rows, nextId, prev>>

\* a variant that removes the offending row and issues the update again
UpdateCatchDeleteRetry(r, rs, kind, errFields) ==
  IF ~IsUniqueConstraintError(kind)
    THEN [req |-> Respond(r, 500, << >>), rows |-> rs]
  ELSE [req |-> [r EXCEPT !.handled = "resolved"],
        rows |-> {x \in rs : x.email # errFields.email_unique}]

\* the catch block of _update (lines 482-502): any other error is raised
\* again; after _handleUniqueConstraintError, whatever it returned, line 501
\* throws 409.  The request afterwards and the rows afterwards.
UpdateCatch(r, rs, kind, errFields) ==
  IF ~IsUniqueConstraintError(kind)
    THEN [req |-> Respond(r, 500, << >>), rows |-> rs]
  ELSE LET h == _handleUniqueConstraintError(rs, errFields, FALSE)
       IN  [req |-> Respond([r EXCEPT !.calls = @ + h.calls,
                                      !.handled = IF h.threw THEN "conflict"
                                                  ELSE "resolved",
                                      !.hrow = h.row],
                            409, << >>),
            rows |-> rs]

\* model.update settles; the catch block of _update runs on an error
UpdateWrite(p) ==
  /\ req[p].pc = "update"
  /\ \E fail \in BOOLEAN :
       LET data == req[p].data[1]
           u    == StoreUpdate(rows, data, req[p].where[1])
           kind == IF fail THEN "other" ELSE IF ~u.ok THEN "unique" ELSE "none"
           r    == [req[p] EXCEPT !.err = kind, !.writes = @ + 1, !.calls = @ + 1,
                                  !.pre = IF u.ok THEN {} ELSE Dups(rows, data)]
       IN  IF kind = "none"
             THEN /\ rows' = u.rows
                  /\ req' = [req EXCEPT ![p] = [r EXCEPT !.pc = "update_find"]]
             ELSE LET c == UpdateCatch(r, rows, kind, ViolationFields(data))
                  IN  /\ rows' = c.rows
                      /\ req' = [req EXCEPT ![p] = c.req]
  /\ UNCHANGED <<call, owner, paranoid, nextId, nreq, prev>>

\* model.findAll(options) settles and _update returns the rows
UpdateFindAll(p) ==
  /\ req[p].pc = "update_find"
  /\ req' = [req EXCEPT ![p] =
       Respond([req[p] EXCEPT !.calls = @ + 1], 200,
               StoreFindAll(rows, req[p].where))]
  /\ UNCHANGED <<call, owner, paranoid, rows, nextId, nreq, prev>>

\* the stores _update is called on: the row of { email: "a", name: "x" },
\* alone or with the row of { email: "b", name: "y" }, each live or
\* (paranoid model) soft-deleted
UpdateInitRows ==
  LET D == {DefaultDeletedAt, DeletedMark}
  IN  {{[id |-> 1, email |-> "a", name |-> "x", deletedAt |-> d]} : d \in D}
      \cup {{[id |-> 1, email |-> "a", name |-> "x", deletedAt |-> d1],
              [id |-> 2, email |-> "b", name |-> "y", deletedAt |-> d2]} :
              d1 \in D, d2 \in D}

InitUpdate ==
  /\ paranoid \in BOOLEAN
  /\ rows \in UpdateInitRows
  /\ \A r \in rows : paranoid \/ r.deletedAt = DefaultDeletedAt
  /\ nextId = 3
  /\ owner = 0
  /\ req = [p \in Procs |-> Idle]
  /\ nreq = 0
  /\ prev = NoPrev
  /\ call = NoCall

NextUpdate ==
  \/ \E data \in InputRecords \cup IdRecords, where \in UpdateScopes :
        StartUpdate(1, data, where)
  \/ UpdateWrite(1)
  \/ UpdateFindAll(1)
  \/ Finish(1)

SpecUpdate == InitUpdate /\ [][NextUpdate]_vars

(***************************************************************************)
(* The helper functions called on their own                                *)
(***************************************************************************)
MaxIndexes == 2    \* most indexes a model declares in options.indexes

\* the indexes a model may declare in options.indexes
DeclaredIndexes ==
  {[name |-> "name_idx",     unique |-> FALSE, fields |-> <<"name">>],
   [name |-> "email_unique", unique |-> TRUE,  fields |-> <<"email">>],
   [name |-> "email_name",   unique |-> TRUE,  fields |-> <<"email", "name">>]}

\* the models the helpers are called with
Models ==
  [primaryKeys : {<< >>, <<"id">>},
   indexes     : UNION {[1..n -> DeclaredIndexes] : n \in 0..MaxIndexes},
   uniqueKeys  : {<< >>, <<[name |-> "name_key", fields |-> <<"name">>]>>}]

\* the records the helpers are called with; "a-b" is an email with a '-'
HelperRecords ==
  {[f \in D |-> rec[f]] :
     rec \in {[id |-> 1, email |-> e, name |-> "x"] : e \in {"a", "a-b"}},
     D \in SUBSET {"id", "email", "name"}}

\* the error.fields of the SequelizeUniqueConstraintError that the store
\* raises for a row that violates an index: keyed by attribute for an index
\* of options.uniqueKeys, else by index name with the row's values joined
ErrorFields(model, index, row) ==
  IF \E i \in DOMAIN model.uniqueKeys : model.uniqueKeys[i].name = index.name
    THEN [f \in Range(index.fields) |-> row[f]]
    ELSE [n \in {index.name} |->
            Dashed([i \in DOMAIN index.fields |-> row[index.fields[i]]])]

InitHelpers ==
  /\ paranoid \in BOOLEAN
  /\ rows = {}
  /\ nextId = 1
  /\ owner = 0
  /\ req = [p \in Procs |-> Idle]
  /\ nreq = 0
  /\ prev = NoPrev
  /\ call \in [fn : {"none"}, model : Models, data : HelperRecords]

\* _getInstanceValidIndexFields(_getUniqueIndexes(model), data) is called
SelectIdentity ==
  /\ call.fn = "none"
  /\ call' = [fn |-> "_getInstanceValidIndexFields",
              model |-> call.model, data |-> call.data,
              indexes |-> _getIndexesOf(call.model),
              out |-> _getInstanceValidIndexFields(
                        _getUniqueIndexesOf(call.model), call.data)]
  /\ UNCHANGED <<owner, paranoid, rows, nextId, req, nreq, prev>>

\* _getUniqueConstraintErrorFields(model, error) is called for the error
\* that the store raises when a row with the values of call.data violates
\* a named unique index of the model
DecodeViolation ==
  /\ call.fn = "none"
  /\ \E k \in DOMAIN _getUniqueIndexesOf(call.model) :
       LET index == _getUniqueIndexesOf(call.model)[k]
       IN  /\ index.name # "PRIMARY"
           /\ \A f \in Range(index.fields) : f \in DOMAIN call.data
           /\ call' = [fn |-> "_getUniqueConstraintErrorFields",
                       model |-> call.model, data |-> call.data, index |-> index,
                       out |-> _getUniqueConstraintErrorFieldsOf(call.model,
                                 ErrorFields(call.model, index, call.data))]
  /\ UNCHANGED <<owner, paranoid, rows, nextId, req, nreq, prev>>

NextHelpers == SelectIdentity \/ DecodeViolation

SpecHelpers == InitHelpers /\ [][NextHelpers]_vars

(***************************************************************************)
(* _findExistingRows, isDeleted and the association query generators,      *)
(* called on their own                                                     *)
(***************************************************************************)
\* the arrays that hold every element of a set once
Orderings(s) == {seq \in [1..Cardinality(s) -> s] : Range(seq) = s}

\* model.findAll({ where: { $or } }) of line 526: the default scope, and no
\* order is asked for, so the rows come in an order of the store's choosing
FindAllAnyOrder(rs, or) ==
  Orderings({r \in rs : Live(r) /\ \E i \in DOMAIN or : Matches(r, or[i])})

\* the forEach of lines 542-554 from element k on: found is the array that
\* splice shrinks, acc the two arrays built so far
RECURSIVE PartitionFrom(_, _, _, _, _)
PartitionFrom(or, data, k, found, acc) ==
  IF k > Len(or) THEN acc
  ELSE LET index == FindIndex(found, or[k])
       IN  IF index # 0
             THEN PartitionFrom(or, data, k + 1, Splice(found, index),
                    [acc EXCEPT !.existingRows = Append(@, found[index])])
             ELSE PartitionFrom(or, data, k + 1, found,
                    [acc EXCEPT !.newRows = Append(@, data[k])])

\* _findExistingRows(model, data), given the array that findAll resolved to
_findExistingRows(data, found) ==
  LET or == Identities(data)
  IN  IF Len(found) = Len(or)
        THEN [existingRows |-> found, newRows |-> << >>]
        ELSE PartitionFrom(or, data, 1, found,
                           [existingRows |-> << >>, newRows |-> << >>])

\* the records of the batches handed to _findExistingRows: each carries an
\* identity, by primary key or by email
PartitionRecords ==
  {[email |-> "a"], [email |-> "b"], [email |-> "a", name |-> "x"],
   [id |-> 1, email |-> "b"]}

PartitionBatches == UNION {[1..n -> PartitionRecords] : n \in 1..MaxBatch}

\* the stores the functions are called on
CallStores ==
  SUBSET {[id |-> 1, email |-> "a", name |-> "x", deletedAt |-> DefaultDeletedAt],
          [id |-> 2, email |-> "b", name |-> "x", deletedAt |-> DefaultDeletedAt],
          [id |-> 2, email |-> "b", name |-> "x", deletedAt |-> DeletedMark]}

CallInitRows == {rs \in CallStores : \A x, y \in rs : x.id = y.id => x = y}

InitCalls ==
  /\ paranoid \in BOOLEAN
  /\ rows \in CallInitRows
  /\ nextId = 3
  /\ owner = 0
  /\ req = [p \in Procs |-> Idle]
  /\ nreq = 0
  /\ prev = NoPrev
  /\ call = NoCall

\* _findExistingRows(model, data) is called on a batch
FindExistingRowsCall ==
  /\ call.fn = "none"
  /\ \E data \in PartitionBatches :
       \E found \in FindAllAnyOrder(rows, Identities(data)) :
         call' = [fn |-> "_findExistingRows", data |-> data,
                  out |-> _findExistingRows(data, found)]
  /\ UNCHANGED <<owner, paranoid, rows, nextId, req, nreq, prev>>

\* the values a deletedAt holds: undefined, null, a number, or a Date
\* object (ref tells the objects apart, time is its getTime())
JsValues ==
  {[type |-> "undefined", time |-> 0, ref |-> 0],
   [type |-> "null", time |-> 0, ref |-> 0],
   [type |-> "number", time |-> 0, ref |-> 0]}
  \cup [type : {"date"}, time : {1, 2}, ref : {1, 2}]

JsNull == [type |-> "null", time |-> 0, ref |-> 0]

\* a === b: a Date is equal to itself only
StrictEquals(a, b) ==
  /\ a.type = b.type
  /\ a.type = "number" => a.time = b.time
  /\ a.type = "date" => a.ref = b.ref

\* two values that are the same Date object have the same timestamp
OneObject(a, b) ==
  (a.type = "date" /\ b.type = "date" /\ a.ref = b.ref) => a.time = b.time

\* the models isDeleted is called with: options.paranoid, options.deletedAt
\* (the column name, or "" for none) and the column's defaultValue
SoftDeleteModels ==
  [paranoid : BOOLEAN, deletedAt : {"", DeletedAtCol}, defaultValue : JsValues]

\* the rows isDeleted is called with: {} for null, or the row in a set
SoftDeleteRows == {{}} \cup {{[deletedAt |-> v]} : v \in JsValues}

\* a variant that compares two dates as objects
isDeletedOfStrict(model, row) ==
  IF ~model.paranoid \/ model.deletedAt = "" THEN FALSE
  ELSE IF row = {} THEN TRUE
  ELSE LET defaultDeletedAt == IF model.defaultValue.type = "undefined"
                                 THEN JsNull ELSE model.defaultValue
       IN  \E r \in row : ~StrictEquals(defaultDeletedAt, r[model.deletedAt])

\* isDeleted(model, row) for any model
isDeletedOf(model, row) ==
  IF ~model.paranoid \/ model.deletedAt = "" THEN FALSE
  ELSE IF row = {} THEN TRUE
  ELSE LET defaultDeletedAt == IF model.defaultValue.type = "undefined"
                                 THEN JsNull ELSE model.defaultValue
       IN  \E r \in row :
             LET deletedAt == r[model.deletedAt]
             IN  IF defaultDeletedAt.type = "date" /\ deletedAt.type = "date"
                   THEN defaultDeletedAt.time # deletedAt.time
                   ELSE ~StrictEquals(defaultDeletedAt, deletedAt)

\* isDeleted(model, row) is called
IsDeletedCall ==
  /\ call.fn = "none"
  /\ \E model \in SoftDeleteModels, row \in SoftDeleteRows :
       /\ \A r \in row : OneObject(model.defaultValue, r.deletedAt)
       /\ call' = [fn |-> "isDeleted", model |-> model, row |-> row,
                   out |-> isDeletedOf(model, row)]
  /\ UNCHANGED <<owner, paranoid, rows, nextId, req, nreq, prev>>

\* the records setDefaultDeletedValue is called with: the caller supplied
\* no deletedAt, or null, a number or a date
StampRecords ==
  {[name |-> "x"]} \cup
  {[name |-> "x", deletedAt |-> v] :
     v \in {x \in JsValues : x.type # "undefined" /\ x.time = x.ref}}

\* a request body: one record (object), or an array of records
StampBodies ==
  [kind : {"object"}, rows : [1..1 -> StampRecords]]
  \cup [kind : {"array"},
        rows : UNION {[1..n -> StampRecords] : n \in 0..MaxBatch}]

\* a variant that keeps a deletedAt the caller supplied
setDefaultDeletedValueOfKeep(model, data) ==
  IF ~model.paranoid \/ model.deletedAt = "" THEN data
  ELSE LET defaultDeletedAt == IF model.defaultValue.type = "undefined"
                                 THEN JsNull ELSE model.defaultValue
       IN  [i \in DOMAIN data |->
              IF model.deletedAt \in DOMAIN data[i] THEN data[i]
              ELSE Assign(data[i], [f \in {model.deletedAt} |-> defaultDeletedAt])]

\* setDefaultDeletedValue(model, data) for any model: the records of the
\* body afterwards (the handlers of switchByType write into the one record
\* of an object and into every record of an array)
setDefaultDeletedValueOf(model, data) ==
  IF ~model.paranoid \/ model.deletedAt = "" THEN data
  ELSE LET defaultDeletedAt == IF model.defaultValue.type = "undefined"
                                 THEN JsNull ELSE model.defaultValue
       IN  [i \in DOMAIN data |->
              Assign(data[i], [f \in {model.deletedAt} |-> defaultDeletedAt])]

\* setDefaultDeletedValue(model, body) is called, and then isDeleted on
\* every record of the body
StampCheckCall ==
  /\ call.fn = "none"
  /\ \E model \in SoftDeleteModels, body \in StampBodies :
       LET out == setDefaultDeletedValueOf(model, body.rows)
       IN  /\ \A i \in DOMAIN body.rows :
                "deletedAt" \in DOMAIN body.rows[i] =>
                  OneObject(model.defaultValue, body.rows[i].deletedAt)
           /\ call' = [fn |-> "setDefaultDeletedValue", model |-> model,
                       body |-> body, out |-> out,
                       deleted |-> [i \in DOMAIN out |->
                                      isDeletedOf(model, {out[i]})]]
  /\ UNCHANGED <<owner, paranoid, rows, nextId, req, nreq, prev>>

NextCalls == FindExistingRowsCall \/ IsDeletedCall \/ StampCheckCall

SpecCalls == InitCalls /\ [][NextCalls]_vars

(***************************************************************************)
(* The query generators of the plural association routes (lib/loaders.js)  *)
(***************************************************************************)
MaxInclude == 2

\* the foreign key of the association, and the owner ids of the routes
ForeignKey == "ownerId"

OwnerIds == {1, 2}

\* association.scope / through.scope: absent, on another field, or on the
\* foreign key itself
Scopes == {<< >>, [scope |-> [kind |-> 1]], [scope |-> [ownerId |-> 2]]}

\* association.oneFromTarget, the inverse through-association (to-one)
OneFromTarget == [name |-> "link", isMultiAssociation |-> FALSE]

\* the hasMany and belongsToMany associations the generators are built for
Associations ==
  {Assign([associationType |-> "hasMany", foreignKey |-> ForeignKey], s) :
     s \in Scopes}
  \cup
  {Assign([associationType |-> "belongsToMany", foreignKey |-> ForeignKey,
           oneFromTarget |-> OneFromTarget,
           through |-> Assign([model |-> m], ts)], s) :
     m \in BOOLEAN, ts \in Scopes, s \in Scopes}

\* the entries of a caller's include: a to-one relation, a to-many
\* relation, and an entry that names a model and no association
IncludeEntries ==
  {[association |-> [name |-> "house", isMultiAssociation |-> FALSE]],
   [association |-> [name |-> "members", isMultiAssociation |-> TRUE]],
   [model |-> "tag"]}

\* the queries the caller hands to a generator: every part is optional
Queries ==
  {Assign(Assign(Assign(w, i), a), t) :
     w \in {<< >>, [where |-> [kind |-> 2]], [where |-> [ownerId |-> 2]]},
     i \in {<< >>} \cup
           {[include |-> inc] :
              inc \in UNION {[1..n -> IncludeEntries] : n \in 0..MaxInclude}},
     a \in {<< >>, [attributes |-> <<"name">>, joinTableAttributes |-> <<"role">>]},
     t \in {<< >>, [through |-> [where |-> [ownerId |-> 2]]],
                   [through |-> [where |-> [role |-> 3]]]}}

\* hasPluralAssociation(include), called with query.include or undefined
hasPluralAssociationNever(query) == FALSE

hasPluralAssociation(query) ==
  LET include == IF "include" \in DOMAIN query THEN query.include ELSE << >>
  IN  \E i \in DOMAIN include :
        /\ "association" \in DOMAIN include[i]
        /\ include[i].association.isMultiAssociation

\* lines 366-368 and 417-419
MarkDistinct(query) ==
  IF hasPluralAssociation(query) THEN Assign(query, [distinct |-> TRUE])
  ELSE query

\* _.clone(q): a copy whose nested objects are those of q
cloneShallow(q) == [value |-> q, shared |-> DOMAIN q]

\* _.cloneDeep(q): a copy that shares no object with q
cloneDeep(q) == [value |-> q, shared |-> {}]

\* what the caller's q holds after the nested object `part` of the copy was
\* written: the write shows in q when the copy shares that object with it
Aliased(q, copy, part, written) ==
  IF part \in copy.shared THEN [q EXCEPT ![part] = written] ELSE q

\* a variant that writes the scope over the pin
hasManyQueryGeneratorScopeLast(association, q, id) ==
  LET copy  == cloneDeep(q)
      pin   == [f \in {association.foreignKey} |-> id]
      where == IF "scope" \in DOMAIN association
                 THEN Assign(pin, association.scope) ELSE pin
  IN  [q      |-> q,
       shared |-> copy.shared,
       query  |-> MarkDistinct(Assign(copy.value, [where |-> where]))]

\* hasManyQueryGenerator(q, id) of an association: the caller's q afterwards,
\* the objects the result shares with q, and the resulting query
hasManyQueryGenerator(association, q, id) ==
  LET copy   == cloneDeep(q)
      where0 == IF "where" \in DOMAIN copy.value THEN copy.value.where ELSE << >>
      where1 == IF "scope" \in DOMAIN association
                  THEN Assign(where0, association.scope) ELSE where0
      where2 == Assign(where1, [f \in {association.foreignKey} |-> id])
  IN  [q      |-> Aliased(q, copy, "where", where2),
       shared |-> copy.shared,
       query  |-> MarkDistinct(Assign(copy.value, [where |-> where2]))]

\* the value undefined
Undefined == [undefined |-> 0]

\* belongsToManyQueryGenerator(q, id) of an association
belongsToManyQueryGenerator(association, q, id) ==
  LET copy       == cloneDeep(q)
      through    == association.through
      scopeWhere == IF "scope" \in DOMAIN association
                      THEN association.scope ELSE Undefined
      where0     == IF "where" \in DOMAIN copy.value
                      THEN copy.value.where ELSE Undefined
      where      == [and |-> <<scopeWhere, where0>>]
      pin        == [f \in {association.foreignKey} |-> id]
      through1   == IF "scope" \in DOMAIN through
                      THEN Assign(pin, through.scope) ELSE pin
      through2   == IF "through" \in DOMAIN copy.value
                       /\ "where" \in DOMAIN copy.value.through
                      THEN [and |-> <<through1, copy.value.through.where>>]
                      ELSE through1
      include0   == IF "include" \in DOMAIN copy.value
                      THEN copy.value.include ELSE << >>
      entry      == Assign([association |-> association.oneFromTarget,
                            require |-> TRUE, where |-> through2],
                           IF "joinTableAttributes" \in DOMAIN copy.value
                             THEN [attributes |-> copy.value.joinTableAttributes]
                             ELSE << >>)
      include1   == Append(include0, entry)
      query1     == Assign(copy.value, [where |-> where])
  IN  IF through.model
        THEN [q      |-> Aliased(q, copy, "include", include1),
              shared |-> copy.shared,
              query  |-> MarkDistinct(Assign(query1, [include |-> include1]))]
        ELSE [q |-> q, shared |-> copy.shared, query |-> MarkDistinct(query1)]

InitQuery ==
  /\ paranoid = FALSE
  /\ rows = {}
  /\ nextId = 1
  /\ owner = 0
  /\ req = [p \in Procs |-> Idle]
  /\ nreq = 0
  /\ prev = NoPrev
  /\ call \in [fn : {"none"}, association : Associations, id : OwnerIds]

\* GET /owner/:id/things of a hasMany association builds its query
ForHasMany ==
  /\ call.fn = "none"
  /\ call.association.associationType = "hasMany"
  /\ \E q \in Queries :
       call' = [fn |-> "hasManyQueryGenerator",
                association |-> call.association, id |-> call.id, q |-> q,
                out |-> hasManyQueryGenerator(call.association, q, call.id)]
  /\ UNCHANGED <<owner, paranoid, rows, nextId, req, nreq, prev>>

\* GET /owner/:id/things of a belongsToMany association builds its query
ForBelongsToMany ==
  /\ call.fn = "none"
  /\ call.association.associationType = "belongsToMany"
  /\ \E q \in Queries :
       call' = [fn |-> "belongsToManyQueryGenerator",
                association |-> call.association, id |-> call.id, q |-> q,
                out |-> belongsToManyQueryGenerator(call.association, q, call.id)]
  /\ UNCHANGED <<owner, paranoid, rows, nextId, req, nreq, prev>>

NextQuery == ForHasMany \/ ForBelongsToMany

SpecQuery == InitQuery /\ [][NextQuery]_vars

(***************************************************************************)
(* The routes of a belongsTo association (lib/loaders.js): the owner row   *)
(* holds the foreign key `owner` (0 for null), the rows are the target's   *)
(***************************************************************************)
\* body[as] of findById(model, { include: [association] }), and the row that
\* body[get](query) resolves to: the target row of the default scope whose
\* id is the owner's foreign key, as a set
Associated(rs, fk) == StoreFind(rs, [id |-> fk], FALSE)

\* the target rows a behaviour starts from
AssocInitRows ==
  {rs \in SUBSET {[id |-> 1, email |-> "a", name |-> "x", deletedAt |-> DefaultDeletedAt],
                  [id |-> 1, email |-> "a", name |-> "x", deletedAt |-> DeletedMark],
                  [id |-> 2, email |-> "b", name |-> "x", deletedAt |-> DefaultDeletedAt]} :
     \A x, y \in rs : x.id = y.id => x = y}

\* the owner's foreign key is null, or the id of the first target row, which
\* may have been destroyed since
InitAssoc ==
  /\ paranoid \in BOOLEAN
  /\ rows \in AssocInitRows
  /\ \A r \in rows : paranoid \/ r.deletedAt = DefaultDeletedAt
  /\ nextId = 3
  /\ owner \in {0, 1}
  /\ req = [p \in Procs |-> Idle]
  /\ nreq = 0
  /\ prev = NoPrev
  /\ call = NoCall

\* GET /owner/:id/target: findById(model), then body[get](query); a missing
\* row is answered with 404, a row with after()'s default status 200
AssocGet(p) ==
  /\ Accept(p)
  /\ LET data == Associated(rows, owner)
         r    == [Idle EXCEPT !.op = "singular.get", !.as = data, !.calls = 1]
     IN  req' = [req EXCEPT ![p] =
           IF data = {} THEN Respond(r, 404, << >>)
           ELSE Respond(r, 200, SortById(data))]
  /\ nreq' = nreq + 1
  /\ UNCHANGED <<call, owner, paranoid, rows, nextId, prev>>

\* the handler of DELETE /owner/:id/target: 404 when body[as] is missing,
\* else body[as].destroy() (a paranoid model marks the row) and 204
AssocDelOutcome(rs, as) ==
  IF as = {} THEN [status |-> 404, rows |-> rs]
  ELSE [status |-> 204,
        rows |-> IF paranoid
                   THEN {IF x \in as THEN [x EXCEPT !.deletedAt = DeletedMark]
                         ELSE x : x \in rs}
                   ELSE rs \ as]

\* DELETE /owner/:id/target
AssocDel(p) ==
  /\ Accept(p)
  /\ LET as == Associated(rows, owner)
         o  == AssocDelOutcome(rows, as)
         r  == [Idle EXCEPT !.op = "singular.del", !.as = as, !.calls = 1,
                            !.writes = IF as = {} THEN 0 ELSE 1]
     IN  /\ rows' = o.rows
         /\ req' = [req EXCEPT ![p] = Respond(r, o.status, << >>)]
  /\ nreq' = nreq + 1
  /\ UNCHANGED <<call, owner, paranoid, nextId, prev>>

\* a variant that ignores the row found with the owner
MergeBodyOnly(as, body) == body

\* _.assign({}, body[as] && body[as].dataValues, request.body)
MergeWithAssociated(as, body) ==
  IF as = {} THEN body ELSE Assign(CHOOSE x \in as : TRUE, body)

\* PUT /owner/:id/target: findById with the association included, the merge
\* of the found row with the request body, and the upsert middleware on the
\* target model up to its first store call
StartAssocPut(p, body) ==
  /\ Accept(p)
  /\ LET as    == Associated(rows, owner)
         data  == setDefaultDeletedValue(<<MergeWithAssociated(as, body)>>)[1]
         where == _getInstanceValidIndexFields(_getUniqueIndexes, data)
         r     == [Idle EXCEPT !.op = "belongsTo.put", !.body = <<body>>,
                               !.as = as, !.calls = 1]
     IN  req' = [req EXCEPT ![p] = UpsertEntry(r, data, where)]
  /\ nreq' = nreq + 1
  /\ UNCHANGED <<call, owner, paranoid, rows, nextId, prev>>

\* the middleware after upsert: params.data.update({ [foreignKey]: data.id })
OwnerUpdate(p) ==
  /\ req[p].pc = "done"
  /\ req[p].op = "belongsTo.put"
  /\ req[p].status \in {200, 201}
  /\ owner' = req[p].res[1].id
  /\ req' = [req EXCEPT ![p] = [@ EXCEPT !.pc = "replied", !.calls = @ + 1]]
  /\ UNCHANGED <<call, paranoid, rows, nextId, nreq, prev>>

\* the response is sent: after the owner's update for a PUT whose upsert
\* succeeded, at once for every other request
AssocFinish(p) ==
  /\ \/ req[p].pc = "replied"
     \/ /\ req[p].pc = "done"
        /\ ~(req[p].op = "belongsTo.put" /\ req[p].status \in {200, 201})
  /\ req' = [req EXCEPT ![p] = Idle]
  /\ UNCHANGED <<call, owner, paranoid, rows, nextId, nreq, prev>>

\* the bodies of a PUT on the association route
AssocBodies == InputRecords \cup IdRecords

\* the upsert middleware stamps the record, so the row that _upsert reads
\* back is never a deleted one: its second find and its restore do not run
NextAssoc ==
  \/ AssocGet(1)
  \/ AssocDel(1)
  \/ \E body \in AssocBodies : StartAssocPut(1, body)
  \/ UpsertNative(1)
  \/ UpsertFind(1)
  \/ CreateWrite(1)
  \/ OwnerUpdate(1)
  \/ AssocFinish(1)

SpecAssoc == InitAssoc /\ [][NextAssoc]_vars

(***************************************************************************)
(* Properties                                                              *)
(***************************************************************************)
\* the stored rows that carry an identity
RowsOf(w) == {x \in rows : Matches(x, w)}

\* a finished request that went through _upsert and met no store failure
UpsertDone(r) ==
  /\ r.pc = "done"
  /\ r.op \in {"upsert", "findOrUpsert"}
  /\ r.where # << >>
  /\ r.writes > 0
  /\ r.err = "none"

\* C1: requests served one at a time.  An upsert whose identity matched no
\* stored row answers created = true (201).  An upsert that follows an upsert
\* of the same identity which created the row answers created = false (200)
\* with the same row id; that row carries the values of the record the second
\* call handed to _upsert and is the only stored row of that identity.
UpsertTwiceIdempotent ==
  LET r == req[1]
  IN  (UpsertDone(r) /\ r.op = "upsert") =>
        /\ r.pre = {} => (r.created /\ r.status = 201)
        /\ (prev.op = "upsert" /\ prev.created /\ prev.where = r.where) =>
             /\ ~r.created
             /\ r.status = 200
             /\ Len(r.res) = 1
             /\ r.res[1].id = prev.id
             /\ \A f \in DOMAIN r.data[1] : r.res[1][f] = r.data[1][f]
             /\ RowsOf(r.where[1]) = {r.res[1]}

\* C1 witness: the second of two upserts of one identity has answered, with
\* a name other than the one the first call stored
UpsertTwiceWitness ==
  LET r == req[1]
  IN  /\ UpsertDone(r) /\ r.op = "upsert"
      /\ prev.op = "upsert" /\ prev.created /\ prev.where = r.where
      /\ r.status = 200
      /\ "name" \in DOMAIN r.body[1] /\ r.body[1].name = "y"

\* C2: requests served one at a time, paranoid model.  When _upsert returns
\* for a record whose identity matched a soft-deleted row, the store holds
\* exactly one row of that identity, it is the row that was soft-deleted
\* (under its id, or under the id the record carries), it is not deleted any
\* more, and nothing was created.
UpsertRestoresSoftDeleted ==
  LET r == req[1]
  IN  (paranoid /\ UpsertDone(r)
         /\ \E x \in r.pre : x.deletedAt # DefaultDeletedAt) =>
        /\ ~r.created
        /\ Len(r.res) = 1
        /\ RowsOf(r.where[1]) = {r.res[1]}
        /\ \E x \in r.pre :
             \/ x.id = r.res[1].id
             \/ "id" \in DOMAIN r.data[1] /\ x.email = r.res[1].email
        /\ r.res[1].deletedAt = DefaultDeletedAt

\* C2 witness: an upsert that had to call restore on the row has answered
UpsertRestoresWitness ==
  LET r == req[1]
  IN  /\ paranoid /\ UpsertDone(r)
      /\ \E x \in r.pre : x.deletedAt # DefaultDeletedAt
      /\ r.writes = 2

\* no two stored rows share an id or a non-null email
UniquePerIdentity ==
  \A x, y \in rows :
    (x.id = y.id \/ (x.email = y.email /\ x.email # Null)) => x = y

\* the only two requests served so far are creates of one identity whose
\* model.create settled without a store failure
TwoCreatesSettled ==
  /\ nreq = 2
  /\ \A p \in Procs : /\ req[p].pc = "done" /\ req[p].op = "create"
                      /\ req[p].err \in {"none", "unique"}
  /\ req[1].data[1].email = req[2].data[1].email

\* C3: two requests in flight.  The store never holds two rows of one
\* identity.  Of two creates of the same identity every one whose insert
\* failed went through _handleUniqueConstraintError, at most one insert
\* succeeded, and if one of the inserts met no stored row of that identity
\* then exactly one succeeded and the other was refused because of the row
\* the first one inserted.
ConcurrentCreateOneWins ==
  /\ UniquePerIdentity
  /\ TwoCreatesSettled =>
       LET won == {p \in Procs : req[p].err = "none"}
       IN  /\ Cardinality(won) <= 1
           /\ \A p \in Procs \ won :
                req[p].err = "unique" /\ req[p].handled # "none"
           /\ (\E p \in Procs : req[p].pre = {}) =>
                \E p \in won : \A q \in Procs \ {p} : req[q].pre = {req[p].res[1]}

\* C3 witness: one create inserted the row and the other was refused
ConcurrentCreateWitness ==
  /\ TwoCreatesSettled
  /\ \E p, q \in Procs :
       /\ req[p].err = "none" /\ req[p].status = 201
       /\ req[q].err = "unique" /\ req[q].status = 409
       /\ req[q].pre = {req[p].res[1]}

\* a create whose insert was refused on a paranoid model while the offending
\* row was soft-deleted or ignoreDuplicates was set
CreateRefusedRecoverable(r) ==
  /\ r.pc = "done" /\ r.op = "create" /\ r.err = "unique"
  /\ paranoid
  /\ r.ign \/ \E x \in r.pre : x.deletedAt # DefaultDeletedAt

\* C4: on a paranoid model, a create whose insert was refused because of a
\* soft-deleted row, or with ignoreDuplicates set, does not fail: it answers
\* with the offending row, stored with the caller's value in every field of
\* the input and the declared default in the others.
CreateOverwritesOffendingRow ==
  LET r == req[1]
  IN  CreateRefusedRecoverable(r) =>
        /\ r.status = 201
        /\ Len(r.res) = 1
        /\ r.res[1] \in rows
        /\ r.res[1].id \in {x.id : x \in r.pre}
        /\ \A f \in DOMAIN r.data[1] : r.res[1][f] = r.data[1][f]
        /\ "name" \notin DOMAIN r.data[1] => r.res[1].name = DefaultName

\* C5: on a paranoid model, _handleUniqueConstraintError called for a
\* violation whose offending row exists and is soft-deleted, or with
\* ignoreDuplicates set, returns that row with every attribute that has a
\* declared default reset to it, and signals no conflict.
HandlerReturnsResetRow ==
  \A p \in Procs :
    LET r == req[p]
    IN  (/\ r.handled # "none" /\ paranoid /\ r.pre # {}
         /\ r.ign \/ \E x \in r.pre : x.deletedAt # DefaultDeletedAt) =>
          /\ r.handled = "resolved"
          /\ r.hrow = {ResetDefaults(x) : x \in r.pre}

\* C6: a step in which _handleUniqueConstraintError is called for a violation
\* whose offending row is not found, or is not soft-deleted while
\* ignoreDuplicates is not set, ends the request with 409, leaves the stored
\* rows as they were and issues no write beyond the refused one.
LiveDuplicateIsTerminal ==
  [][\A p \in Procs :
       (/\ req[p].handled = "none" /\ req'[p].handled # "none"
        /\ \/ req'[p].pre = {}
           \/ ~req'[p].ign /\ ~isDeleted(req'[p].pre)) =>
         /\ req'[p].pc = "done"
         /\ req'[p].status = 409
         /\ req'[p].writes = req[p].writes + 1
         /\ rows' = rows]_vars

\* C6 witness: a create refused because of a live row, without
\* ignoreDuplicates, has answered 409
LiveDuplicateWitness ==
  LET r == req[1]
  IN  /\ r.pc = "done" /\ r.op = "create" /\ r.handled = "conflict"
      /\ ~r.ign /\ r.pre # {} /\ ~isDeleted(r.pre)
      /\ r.status = 409

\* two elements of the batch carry the same identity
CollidesInBatch(body) ==
  \E i, j \in DOMAIN body :
    /\ i < j
    /\ "email" \in DOMAIN body[i] /\ "email" \in DOMAIN body[j]
    /\ body[i].email = body[j].email

\* C7: a bulkCreate of a batch in which two elements carry the same identity
\* succeeds; every violation moved one record to the conflicts list, and the
\* rows answered are as many as the distinct identities of the input,
\* without duplicates (stated for the batches that no stored row refuses).
BulkCreateResolvesBatchCollision ==
  LET r == req[1]
  IN  (/\ r.pc = "done" /\ r.op = "bulkCreate" /\ r.err # "other"
       /\ AllHaveIdentity(r.body) /\ CollidesInBatch(r.body)
       /\ r.err = "unique" => r.pre = {}) =>
        /\ r.status = 201
        /\ Len(r.conflicts) = r.iters
        /\ Len(r.res) = Cardinality({r.body[i].email : i \in DOMAIN r.body})
        /\ \A i, j \in DOMAIN r.res : r.res[i] = r.res[j] => i = j

\* C8: the retry loop of _bulkCreate handles at most len(records)
\* violations: while the loop runs, every violation handled so far has
\* removed one record from the pending batch.
BulkCreateLoopBounded ==
  \A p \in Procs :
    LET r == req[p]
    IN  r.op = "bulkCreate" =>
          /\ r.iters <= Len(r.body)
          /\ r.pc = "bc_insert" => Len(r.data) = Len(r.body) - r.iters

\* C8 witness: a bulkCreate left the loop after a violation
BulkCreateLoopWitness ==
  LET r == req[1]
  IN  r.pc = "done" /\ r.op = "bulkCreate" /\ r.err = "unique" /\ r.iters = 1

\* the elements of a batch do not all have the same field names
MixedBatch(body) == \E i, j \in DOMAIN body : DOMAIN body[i] # DOMAIN body[j]

\* C9: bulkCreate performs no store write for a batch whose elements do not
\* all share the same field names, and answers 400 (stated for the batches
\* that pass the identity check of lines 387-396).
BulkCreateRejectsMixedBatch ==
  LET r == req[1]
  IN  (r.op = "bulkCreate" /\ MixedBatch(r.body) /\ AllHaveIdentity(r.body)) =>
        /\ r.writes = 0
        /\ r.pc = "done" => r.status = 400

\* C10: _bulkUpsert, given an empty batch, returns an empty list without a
\* store call; given a batch whose elements differ in their field names, or
\* one of whose records has no unique index fully present (here: no email),
\* it answers 400 without a store call.
BulkUpsertValidatesFirst ==
  \A p \in Procs :
    LET r == req[p]
    IN  r.op = "bulkUpsert" =>
          /\ Len(r.data) = 0 =>
               r.pc = "done" /\ r.status = 200 /\ r.res = << >> /\ r.calls = 0
          /\ (\/ MixedBatch(r.data)
              \/ \E i \in DOMAIN r.data : "email" \notin DOMAIN r.data[i]) =>
               r.pc = "done" /\ r.status = 400 /\ r.calls = 0 /\ r.writes = 0

\* C10 witness: a batch whose records all carry an identity was refused for
\* its differing field names
BulkUpsertValidatesWitness ==
  LET r == req[1]
  IN  /\ r.op = "bulkUpsert" /\ r.pc = "done" /\ r.status = 400
      /\ MixedBatch(r.data)
      /\ \A i \in DOMAIN r.data : "email" \in DOMAIN r.data[i]

\* C11: a bulkCreate one of whose records has no unique index fully present
\* issues no store call at all and answers 400.
BulkCreateRejectsNoIdentity ==
  LET r == req[1]
  IN  (r.op = "bulkCreate" /\ ~AllHaveIdentity(r.body)) =>
        /\ r.pc = "done"
        /\ r.writes = 0 /\ r.calls = 0
        /\ r.status = 400

\* a record none of whose unique indexes has all its fields present
NoIdentity(rec) == _getInstanceValidIndexFields(_getUniqueIndexes, rec) = {}

UpsertViolationIsTerminal ==
  /\ [][\A p \in Procs :
          (req[p].pc \in {"upsert", "bu_write"} /\ req'[p].err = "unique") =>
            /\ req'[p].pc = "done"
            /\ req'[p].status = 409
            /\ req'[p].res = << >>
            /\ rows' = rows]_vars
  /\ [](\A p \in Procs :
          (req[p].op \in {"upsert", "findOrUpsert", "bulkUpsert"}
             /\ req[p].err = "unique") =>
            /\ req[p].pc = "done"
            /\ req[p].writes = 1
            /\ req[p].handled = "none")

\* C13 witness: an upsert of { id, email } whose email belongs to another
\* row has answered 409
UpsertViolationWitness ==
  LET r == req[1]
  IN  /\ r.op = "upsert" /\ r.pc = "done" /\ r.err = "unique" /\ r.status = 409
      /\ \E x \in rows : x.id # r.data[1].id /\ x.email = r.data[1].email

\* C14: _update called on its own.  A step in which model.update raises a
\* uniqueness violation ends the call with 409 and leaves every stored row
\* as it was; the call has issued that one write only.
UpdateViolationIsTerminal ==
  /\ [][\A p \in Procs :
          (req[p].pc = "update" /\ req'[p].err = "unique") =>
            /\ req'[p].pc = "done"
            /\ req'[p].status = 409
            /\ req'[p].res = << >>
            /\ rows' = rows]_vars
  /\ [](\A p \in Procs :
          (req[p].op = "update" /\ req[p].err = "unique") =>
            /\ req[p].pc = "done"
            /\ req[p].writes = 1
            /\ req[p].pre \subseteq rows)

\* C14 witness: an update that set the email of one row to the email of
\* another row has answered 409, and both rows are stored
UpdateViolationWitness ==
  LET r == req[1]
  IN  /\ r.op = "update" /\ r.pc = "done" /\ r.err = "unique" /\ r.status = 409
      /\ r.pre # {}
      /\ \E x \in rows : Matches(x, r.where[1]) /\ x \notin r.pre

\* C15 as stated: no record that a write operation has handed to the store
\* carries an id.
ClientIdNeverReachesStore ==
  \A p \in Procs :
    req[p].writes > 0 => \A i \in DOMAIN req[p].data : "id" \notin DOMAIN req[p].data[i]

\* C15 amended: create hands its record to model.create without id, and the
\* inserted row gets the next id of the store; _upsert and _bulkUpsert hand
\* their records to the store with the id the client supplied, and a row
\* that upsert inserts carries that id.
OnlyCreateStripsId ==
  LET r == req[1]
  IN  /\ r.op = "create" =>
           /\ "id" \notin DOMAIN r.data[1]
           /\ (r.pc = "done" /\ r.err = "none") => r.res[1].id = nextId - 1
      /\ (r.op = "upsert" /\ r.where # << >>) =>
           /\ "id" \in DOMAIN r.data[1] <=> "id" \in DOMAIN r.body[1]
           /\ "id" \in DOMAIN r.body[1] =>
                /\ r.data[1].id = r.body[1].id
                /\ (r.pc = "done" /\ r.err = "none") => r.res[1].id = r.body[1].id
      /\ (r.op = "bulkUpsert" /\ r.writes > 0) =>
           \A i \in DOMAIN r.data :
             "id" \in DOMAIN r.data[i] <=> "id" \in DOMAIN r.body[i]

\* C15 witness: an upsert has inserted a row under the id of its body, and
\* that id is not the one the store would have assigned
ClientIdWitness ==
  LET r == req[1]
  IN  /\ r.op = "upsert" /\ r.pc = "done" /\ r.created /\ r.status = 201
      /\ "id" \in DOMAIN r.body[1]
      /\ r.res[1].id = r.body[1].id /\ r.res[1] \in rows
      /\ r.res[1].id # nextId - 1

\* C16: on a paranoid model no record that a write operation has handed to
\* the store carries a delete marker other than the not-deleted default.
MarkerNeverReachesStore ==
  \A p \in Procs :
    (paranoid /\ req[p].writes > 0) =>
      \A i \in DOMAIN req[p].data :
        DeletedAtCol \in DOMAIN req[p].data[i] =>
          req[p].data[i][DeletedAtCol] = DefaultDeletedAt

\* C17 as stated: a create or an upsert issues at most two writes, and a
\* second one only after a uniqueness violation.
SecondWriteOnlyAfterViolation ==
  \A p \in Procs :
    req[p].op \in {"create", "upsert"} =>
      /\ req[p].writes <= 2
      /\ req[p].writes = 2 => req[p].err = "unique"

\* C17 amended: a create, an upsert, a findOrUpsert or a bulkUpsert issues at
\* most two writes.  A second write is either the update that _create issues
\* after a uniqueness violation which the handler resolved, or the restore
\* that _upsert issues, without any violation, on the row it fetched and
\* found soft-deleted.
SecondWriteIsCorrective ==
  /\ [](\A p \in Procs :
          req[p].op \in {"create", "upsert", "findOrUpsert", "bulkUpsert"} =>
            req[p].writes <= 2)
  /\ [][\A p \in Procs :
          (req'[p].writes > req[p].writes /\ req'[p].writes >= 2) =>
            \/ /\ req[p].pc = "upsert_restore"
               /\ req[p].err = "none"
               /\ isDeleted({req[p].res[1]})
            \/ /\ req[p].pc = "create"
               /\ req'[p].err = "unique"
               /\ req'[p].handled = "resolved"]_vars

\* C17 witness: an upsert whose row was soft-deleted by another request
\* after model.upsert has restored it: two writes, no violation
SecondWriteWitness ==
  \E p \in Procs :
    /\ req[p].op = "upsert" /\ req[p].pc = "done" /\ req[p].err = "none"
    /\ req[p].writes = 2
    /\ req[p].res[1] \in rows

\* C18: a step in which the write call of create, upsert, bulkCreate,
\* bulkUpsert or update fails with an error that is no uniqueness violation
\* ends the request with the error raised again (500, no result), without
\* calling the conflict handler and with the stored rows as they were; the
\* request issues no store call afterwards.
StoreErrorIsRaisedAgain ==
  /\ [][\A p \in Procs :
          (req[p].err # "other" /\ req'[p].err = "other") =>
            /\ req'[p].pc = "done"
            /\ req'[p].status = 500
            /\ req'[p].res = << >>
            /\ req'[p].handled = req[p].handled
            /\ req'[p].calls = req[p].calls + 1
            /\ rows' = rows]_vars
  /\ [][\A p \in Procs :
          req[p].err = "other" =>
            \/ req'[p] = req[p] /\ req[p].pc = "done"
            \/ req'[p] = Idle]_vars

\* C18 witness: a bulkUpsert whose write failed in the store, for a reason
\* other than a uniqueness violation, has answered 500
StoreErrorWitness ==
  LET r == req[1]
  IN  /\ r.op = "bulkUpsert" /\ r.pc = "done" /\ r.err = "other" /\ r.status = 500
      /\ prev = NoPrev /\ rows # {}

\* an index all of whose fields the record carries
FullyPresent(index, data) == \A f \in Range(index.fields) : f \in DOMAIN data

\* C19: the index list of a model is its primary key (if it has one), then
\* the indexes of options.indexes in the order declared, then those of
\* options.uniqueKeys.  The identity selected for a record is the record's
\* values on the fields of the first unique index of that list all of whose
\* fields the record carries, whatever the values; it is none when the
\* record carries all the fields of no unique index.
IdentityIsFirstPresentUniqueIndex ==
  call.fn = "_getInstanceValidIndexFields" =>
    LET m  == call.model
        ix == call.indexes
        np == IF Len(m.primaryKeys) > 0 THEN 1 ELSE 0
        ok == {k \in DOMAIN ix : ix[k].unique /\ FullyPresent(ix[k], call.data)}
    IN  /\ Len(ix) = np + Len(m.indexes) + Len(m.uniqueKeys)
        /\ np = 1 => ix[1].name = "PRIMARY" /\ ix[1].fields = m.primaryKeys
        /\ \A i \in DOMAIN m.indexes :
             /\ ix[np + i].name = m.indexes[i].name
             /\ ix[np + i].unique = m.indexes[i].unique
        /\ \A i \in DOMAIN m.uniqueKeys :
             /\ ix[np + Len(m.indexes) + i].name = m.uniqueKeys[i].name
             /\ ix[np + Len(m.indexes) + i].unique
        /\ ok = {} <=> call.out = {}
        /\ ok # {} =>
             LET k == CHOOSE j \in ok : \A l \in ok : j <= l
             IN  call.out = {[f \in Range(ix[k].fields) |-> call.data[f]]}

\* C19 witness: a record that carries the fields of two unique indexes, the
\* composite one declared first, was given the composite identity
IdentityWitness ==
  /\ call.fn = "_getInstanceValidIndexFields"
  /\ call.model.primaryKeys = << >>
  /\ Len(call.model.indexes) = 2
  /\ call.model.indexes[1].name = "email_name"
  /\ call.model.indexes[2].name = "email_unique"
  /\ call.out = {[email |-> "a-b", name |-> "x"]}

\* C20: _getUniqueConstraintErrorFields, called for the violation of a unique
\* index by a row, returns error.fields as it is when its keys are all
\* attributes; otherwise it returns one value for each field of the index
\* named, and that value is the row's value of the field.
DecodedIdentityIsOffendingRow ==
  call.fn = "_getUniqueConstraintErrorFields" =>
    LET fields == ErrorFields(call.model, call.index, call.data)
    IN  IF \A key \in DOMAIN fields : key \in Attributes
          THEN call.out = {fields}
          ELSE \E index \in Range(_getUniqueIndexesOf(call.model)) :
                 /\ index.name \in DOMAIN fields
                 /\ call.out = {[f \in Range(index.fields) |-> call.data[f]]}

\* C21: after _findExistingRows on a batch whose records all carry an
\* identity, every record whose identity matches a stored row of the default
\* scope has that row in existingRows and is not in newRows, and every record
\* that matches none is in newRows
PartitionSplitsByIdentity ==
  call.fn = "_findExistingRows" =>
    \A i \in DOMAIN call.data :
      LET w   == Identities(call.data)[i]
          hit == {x \in rows : Live(x) /\ Matches(x, w)}
      IN  /\ hit # {} =>
               /\ \E j \in DOMAIN call.out.existingRows :
                    call.out.existingRows[j] \in hit
               /\ \A j \in DOMAIN call.out.newRows :
                    call.out.newRows[j] # call.data[i]
          /\ hit = {} =>
               \E j \in DOMAIN call.out.newRows :
                 call.out.newRows[j] = call.data[i]

\* C22: the query built by the hasMany generator constrains the foreign key
\* to the owner's id, whatever the caller's where and the association scope
\* say about that field; it holds the other entries of the scope, and the
\* caller's attributes as they were
HasManyPinsOwner ==
  call.fn = "hasManyQueryGenerator" =>
    LET query == call.out.query
        fk    == call.association.foreignKey
    IN  /\ "where" \in DOMAIN query
        /\ fk \in DOMAIN query.where
        /\ query.where[fk] = call.id
        /\ "scope" \in DOMAIN call.association =>
             \A f \in (DOMAIN call.association.scope) \ {fk} :
               /\ f \in DOMAIN query.where
               /\ query.where[f] = call.association.scope[f]
        /\ ("attributes" \in DOMAIN call.q) = ("attributes" \in DOMAIN query)
        /\ "attributes" \in DOMAIN call.q =>
             query.attributes = call.q.attributes

\* a hasMany query was built from a where and a scope that both name the
\* foreign key with another owner, and from a projection
HasManyPinsOwnerWitness ==
  /\ call.fn = "hasManyQueryGenerator"
  /\ "scope" \in DOMAIN call.association
  /\ ForeignKey \in DOMAIN call.association.scope
  /\ call.association.scope[ForeignKey] # call.id
  /\ "where" \in DOMAIN call.q
  /\ ForeignKey \in DOMAIN call.q.where
  /\ call.q.where[ForeignKey] # call.id
  /\ "attributes" \in DOMAIN call.q
  /\ call.out.query.where[ForeignKey] = call.id

\* C23: neither generator alters the query it was given: afterwards the
\* caller's query (where, include, attributes, through) is what it was, the
\* result shares no object with it, and the result holds the caller's
\* attributes and the caller's include entries as they were
GeneratorsLeaveBaseQuery ==
  call.fn \in {"hasManyQueryGenerator", "belongsToManyQueryGenerator"} =>
    LET query == call.out.query
    IN  /\ call.out.q = call.q
        /\ call.out.shared = {}
        /\ \A part \in {"attributes", "through", "joinTableAttributes"} :
             /\ (part \in DOMAIN call.q) = (part \in DOMAIN query)
             /\ part \in DOMAIN call.q => query[part] = call.q[part]
        /\ "include" \in DOMAIN call.q =>
             /\ "include" \in DOMAIN query
             /\ Len(query.include) >= Len(call.q.include)
             /\ \A i \in DOMAIN call.q.include :
                  query.include[i] = call.q.include[i]

\* a generator was given a query with a where, an include and attributes,
\* and built a query whose where or include differs from the caller's
GeneratorsLeaveBaseQueryWitness ==
  /\ call.fn \in {"hasManyQueryGenerator", "belongsToManyQueryGenerator"}
  /\ {"where", "include", "attributes", "through"} \subseteq DOMAIN call.q
  /\ call.q.include # << >>
  /\ call.out.query.where # call.q.where
  /\ call.fn = "belongsToManyQueryGenerator" =>
       Len(call.out.query.include) > Len(call.q.include)
  /\ call.out.q = call.q

\* a where constrains a field to a value: it holds the entry itself, or it
\* is a conjunction ($and) with an operand that does
Constrains(w, f, v) ==
  \/ f \in DOMAIN w /\ w[f] = v
  \/ /\ "and" \in DOMAIN w
     /\ \E i \in DOMAIN w.and : f \in DOMAIN w.and[i] /\ w.and[i][f] = v

\* C24: for a belongsToMany association with a through model the built
\* query ends with an inclusion of the inverse through-association whose
\* where constrains the foreign key to the owner's id, whatever the through
\* scope and the caller's through.where say about that field
ThroughPinsOwner ==
  (call.fn = "belongsToManyQueryGenerator" /\ call.association.through.model) =>
    LET query == call.out.query
    IN  /\ "include" \in DOMAIN query
        /\ query.include # << >>
        /\ LET entry == query.include[Len(query.include)]
           IN  /\ "association" \in DOMAIN entry
               /\ entry.association = call.association.oneFromTarget
               /\ Constrains(entry.where, call.association.foreignKey, call.id)

\* C25: whenever an entry of the built query's include is a to-many
\* association, the query is marked distinct
PluralIncludeIsDistinct ==
  call.fn \in {"hasManyQueryGenerator", "belongsToManyQueryGenerator"} =>
    LET query == call.out.query
    IN  ("include" \in DOMAIN query
         /\ \E i \in DOMAIN query.include :
              /\ "association" \in DOMAIN query.include[i]
              /\ query.include[i].association.isMultiAssociation)
        => ("distinct" \in DOMAIN query /\ query.distinct)

\* the belongsToMany generator pushed the through inclusion after a caller's
\* to-many inclusion and marked the query distinct
PluralIncludeIsDistinctWitness ==
  /\ call.fn = "belongsToManyQueryGenerator"
  /\ call.association.through.model
  /\ "include" \in DOMAIN call.q
  /\ \E i \in DOMAIN call.q.include :
       /\ "association" \in DOMAIN call.q.include[i]
       /\ call.q.include[i].association.isMultiAssociation
  /\ Len(call.out.query.include) = Len(call.q.include) + 1
  /\ call.out.query.distinct

\* C29: isDeleted answers FALSE for a model that is not paranoid or has no
\* deletedAt column; for a paranoid model it answers TRUE for no row, and
\* for a row it answers TRUE exactly when the row's deletedAt differs from
\* the declared default, null standing for an undefined default: two dates
\* differ when their timestamps do, other values when they are not the same
IsDeletedComparesWithDefault ==
  call.fn = "isDeleted" =>
    LET model == call.model
    IN  IF ~model.paranoid \/ model.deletedAt = "" THEN call.out = FALSE
        ELSE IF call.row = {} THEN call.out = TRUE
        ELSE \A r \in call.row :
               LET d == IF model.defaultValue.type = "undefined"
                          THEN JsNull ELSE model.defaultValue
                   v == r.deletedAt
                   same == IF d.type = "date" /\ v.type = "date"
                             THEN d.time = v.time ELSE d = v
               IN  call.out = ~same

\* isDeleted answered FALSE for a row of a paranoid model whose deletedAt
\* is another Date object with the default's timestamp
IsDeletedWitness ==
  /\ call.fn = "isDeleted"
  /\ call.model.paranoid /\ call.model.deletedAt # ""
  /\ call.model.defaultValue.type = "date"
  /\ \E r \in call.row :
       /\ r.deletedAt.type = "date"
       /\ r.deletedAt.ref # call.model.defaultValue.ref
       /\ r.deletedAt.time = call.model.defaultValue.time
  /\ call.out = FALSE

\* C30: a bulkUpsert that answers 200 for a non-empty batch issued one bulk
\* write, which left the id of every row it updated as it was and wrote the
\* record's other fields; it returns the stored rows that match one of the
\* records' identities, by ascending id, one row for every distinct identity
BulkUpsertReturnsRowPerIdentity ==
  /\ [](\A p \in Procs :
         LET r == req[p]
         IN  (r.op = "bulkUpsert" /\ r.pc = "done" /\ r.status = 200
              /\ Len(r.data) > 0) =>
               /\ r.writes = 1
               /\ r.res = StoreFindAll(rows, r.where)
               /\ \A i, j \in DOMAIN r.res : i < j => r.res[i].id < r.res[j].id
               /\ Len(r.res) = Cardinality(Range(r.where)))
  /\ [][\A p \in Procs :
          (req[p].pc = "bu_write" /\ req'[p].pc = "bu_find") =>
            \A x \in rows :
              \/ x \in rows'
              \/ \E y \in rows' \ rows, i \in DOMAIN req[p].data :
                   /\ y.id = x.id
                   /\ \A f \in (DOMAIN req[p].data[i]) \ {"id"} :
                        y[f] = req[p].data[i][f]]_vars

\* C26: a GET on the association route answers 200 with the associated row,
\* whose id is the owner's foreign key, when that row exists, and 204 when
\* it has been destroyed
AssocGetAnswers ==
  \A p \in Procs :
    LET r == req[p]
    IN  (r.op = "singular.get" /\ r.pc = "done") =>
          /\ r.as # {} =>
               /\ r.status = 200
               /\ Len(r.res) = 1
               /\ r.res[1].id = owner
               /\ r.res[1] \in rows
          /\ r.as = {} => r.status = 204

\* C27: a DELETE on the association route answers 204 and leaves no
\* associated row, both when the row existed and when it had already been
\* destroyed
AssocDelIsIdempotent ==
  \A p \in Procs :
    LET r == req[p]
    IN  (r.op = "singular.del" /\ r.pc = "done") =>
          /\ r.status = 204
          /\ Associated(rows, owner) = {}

\* the stored row with an id carries the fields of a record, the id aside
Carries(id, body) ==
  \E x \in rows :
    /\ x.id = id
    /\ \A f \in (DOMAIN body) \ {"id"} : x[f] = body[f]

\* C28: a PUT on the belongsTo route whose store calls did not fail answers
\* 200 with the associated row's id when that row existed, and 201 with a
\* row created by the request when it did not; once the request completed
\* the owner's foreign key is the id of the returned row, and the stored
\* row with that id carries the submitted values
AssocPutUpdatesOrCreates ==
  \A p \in Procs :
    LET r == req[p]
    IN  (r.op = "belongsTo.put" /\ r.pc \in {"done", "replied"}
         /\ r.err # "other") =>
          /\ r.as # {} =>
               /\ r.status = 200
               /\ \E x \in r.as : r.res[1].id = x.id
          /\ r.as = {} =>
               /\ r.status = 201
               /\ r.created
          /\ r.pc = "replied" =>
               /\ owner = r.res[1].id
               /\ Carries(owner, r.body[1])

\* C28 amended: a PUT on the belongsTo route whose store calls did not fail
\* answers 409 exactly when its write violated a unique index of the target;
\* otherwise, for a body that names no id, it answers 200 with the
\* associated row's id when that row existed, and when it did not exist it
\* answers 201 with a row it created unless the body's identity selected
\* another stored row, which is then the row updated and returned with 200; once
\* the request completed, the owner's foreign key is the id of the returned
\* row, and the stored row with that id carries the submitted values
AssocPutUpsertsTarget ==
  \A p \in Procs :
    LET r == req[p]
    IN  (r.op = "belongsTo.put" /\ r.pc \in {"done", "replied"}
         /\ r.err # "other") =>
          /\ r.status \in {200, 201, 409}
          /\ (r.status = 409) = (r.err = "unique")
          /\ (r.status # 409 /\ r.as # {} /\ "id" \notin DOMAIN r.body[1]) =>
               /\ r.status = 200
               /\ \E x \in r.as : r.res[1].id = x.id
          /\ (r.status # 409 /\ r.as = {} /\ "id" \notin DOMAIN r.body[1]) =>
               IF r.pre = {}
                 THEN r.status = 201 /\ r.created
                 ELSE r.status = 200 /\ \E x \in r.pre : r.res[1].id = x.id
          /\ r.pc = "replied" =>
               /\ owner = r.res[1].id
               /\ Carries(owner, r.body[1])

\* a PUT completed on an owner whose associated row existed: the row kept
\* its id, took the submitted name, and the answer was 200
AssocPutWitness ==
  LET r == req[1]
  IN  /\ r.op = "belongsTo.put" /\ r.pc = "replied"
      /\ r.as # {} /\ r.status = 200
      /\ "name" \in DOMAIN r.body[1]
      /\ \E x \in r.as : x.id = owner /\ x.name # r.body[1].name
      /\ Carries(owner, r.body[1])

\* C31: after setDefaultDeletedValue on a record or a batch, isDeleted
\* answers FALSE for every record of it, whatever deletedAt the caller
\* supplied; for a model that is not paranoid the body is left as it was
StampedIsNotDeleted ==
  call.fn = "setDefaultDeletedValue" =>
    /\ Len(call.out) = Len(call.body.rows)
    /\ \A i \in DOMAIN call.out : call.deleted[i] = FALSE
    /\ ~call.model.paranoid => call.out = call.body.rows

\* a batch for a paranoid model with a date default was stamped, one of
\* whose records came with a deletedAt of another timestamp
StampedWitness ==
  /\ call.fn = "setDefaultDeletedValue"
  /\ call.model.paranoid /\ call.model.deletedAt # ""
  /\ call.model.defaultValue.type = "date"
  /\ call.body.kind = "array"
  /\ \E i \in DOMAIN call.body.rows :
       /\ "deletedAt" \in DOMAIN call.body.rows[i]
       /\ call.body.rows[i].deletedAt.type = "date"
       /\ call.body.rows[i].deletedAt.time # call.model.defaultValue.time
       /\ call.out[i].deletedAt = call.model.defaultValue
       /\ ~call.deleted[i]

\* C34: _findExistingRows puts every record of the batch in one of its two
\* results, also when two records share an identity: the results together
\* are as long as the batch, and newRows holds no record whose identity
\* matches a stored row that is not deleted
PartitionClassifiesEachOnce ==
  call.fn = "_findExistingRows" =>
    /\ Len(call.out.existingRows) + Len(call.out.newRows) = Len(call.data)
    /\ \A j \in DOMAIN call.out.newRows :
         ~\E x \in rows :
            /\ Live(x)
            /\ \E i \in DOMAIN call.data :
                 /\ call.data[i] = call.out.newRows[j]
                 /\ Matches(x, Identities(call.data)[i])

\* C32: an _upsert that returns without an error returns one row, which
\* matches the identity selected from its input, also when a destroy of
\* that identity ran between its native upsert and its re-fetch; and it
\* never comes to call restore on a row that is absent
UpsertReturnsPresentRow ==
  \A p \in Procs :
    LET r == req[p]
    IN  r.op \in {"upsert", "findOrUpsert"} =>
          /\ (r.pc = "done" /\ r.status \in {200, 201} /\ r.writes > 0) =>
               /\ Len(r.res) = 1
               /\ Matches(r.res[1], r.where[1])
          /\ r.pc = "upsert_restore" => Len(r.res) = 1
          /\ (r.pc = "done" /\ r.status = 500) => r.err = "other"

\* C33: when the only two requests are findOrUpsert requests for one
\* identity, in flight together, and both have answered without a failed
\* store call, the store holds exactly one row of that identity and both
\* answered, without an error, with that row
ConcurrentFindOrUpsertOneRow ==
  (/\ nreq = 2
   /\ \A p \in Procs :
        /\ req[p].op = "findOrUpsert" /\ req[p].pc = "done"
        /\ req[p].err # "other") =>
    /\ Cardinality({x \in rows : x.email = "a"}) = 1
    /\ \A p \in Procs :
         /\ req[p].status \in {200, 201}
         /\ Len(req[p].res) = 1
         /\ \E x \in rows : x.email = "a" /\ x.id = req[p].res[1].id

\* both requests found no row and both went on to upsert
ConcurrentFindOrUpsertWitness ==
  /\ nreq = 2
  /\ \A p \in Procs :
       /\ req[p].op = "findOrUpsert" /\ req[p].pc = "done"
       /\ req[p].writes > 0 /\ req[p].status = 201
       /\ Len(req[p].res) = 1
  /\ req[1].res[1].id = req[2].res[1].id
  /\ Cardinality(rows) = 1

====
